---- MODULE Spec2Model ----
(***************************************************************************)
(* Chat backend: the Socket.IO handshake (authenticateSocket) and the      *)
(* handlers of setupSocketHandlers (backend/src/socket.js); the message    *)
(* service (saveMessage, addMessageReaction, deleteMessage); the chat      *)
(* service (createDirectChat, createGroupChat, addChatParticipant,         *)
(* removeChatParticipant, isUserInChat); deleteUserAccount of the user     *)
(* service; query() and transaction() of utils/db.js over the schema of    *)
(* db/init.sql.                                                            *)
(*                                                                         *)
(* Every `await` on a database query is a scheduling point: the handler is *)
(* suspended there and any other handler may run.  The continuation that   *)
(* follows a query result runs to the next `await` without interruption    *)
(* (Node.js run-to-completion), so one action = one query result plus the  *)
(* synchronous code after it.                                              *)
(***************************************************************************)
EXTENDS Integers, Sequences, FiniteSets, Bags, TLC

\* ---------------------------------------------------------------- bounds
MaxReq == 2        \* message:new events the server receives in one run
MaxEph == 2        \* typing:start / typing:stop / message:read events in one run
MaxCalls == 2      \* service calls (REST requests) made in one run

\* ------------------------------------------------------------- universe
Users == {"u1", "u2"}
Accounts == Users \cup {"u3"}   \* ids of the users table; u3 owns no socket
Chats == {"c1"}
Conns == {"s1", "s2", "s3"}      \* socket ids; a socket id is never reused
None  == "none"

\* ids uuidv4() gives the chats created while the system runs (one per call)
NewIds   == <<"n1", "n2", "n3", "n4">>
NewChats == {NewIds[i] : i \in DOMAIN NewIds}
AllChats == Chats \cup NewChats
Roles    == {"creator", "admin", "member"}

\* socket.user.id: u1 is on two devices (s1, s2), u2 on one (s3)
SocketUser(s) == IF s = "s3" THEN "u2" ELSE "u1"

VARIABLES
    status,        \* socket -> "idle" | "auth" | "refused" (handshake) |
                   \*           "new" (handshake passed) | "open" | "closed"
    activeUsers,   \* the Map activeUsers: userId -> socket.id (None = no entry)
    rooms,         \* adapter rooms: <<socket, chat>> means socket is in `chat:<chat>`
    joining,       \* chat:join handlers suspended at `await isUserInChat`
    participants,  \* table chat_participants: <<chat, user>>
    messages,      \* table messages: set of rows
    nextId,        \* next server-assigned message id (insert order)
    updatedAt,     \* chat_rooms.updated_at, as the number of bumps per chat
    reqs,          \* message:new handler invocations, in the order received
    inbox,         \* socket -> bag of events the server delivered to it
    bcast,         \* history: message:new broadcasts, in emission order
    lastStatus,    \* history: last user:status broadcast about each user
    nEph,          \* number of typing / read events received so far
    typingShown,   \* history: <<socket, chat, user>>: the last typing event the socket
                   \* was sent about (chat, user) is typing:start
    handshake,     \* socket -> [token, user]: what socket.handshake.auth.token held
                   \* and what authenticateSocket's getUserById gave (socket.user)
    users,         \* table users: the ids that have a row
    chatRooms,     \* table chat_rooms: set of rows [id, type, creator]
    role,          \* chat_participants.role of <<chat, user>> (read only for rows
                   \* of `participants`; 'member', the column default, elsewhere)
    reactions,     \* table message_reactions: bag of <<message, user, reaction>>
    calls,         \* service calls (REST): in flight or returned, in arrival order
    client         \* u1's browser: the state of the Chat page and of ChatArea

vars == <<status, activeUsers, rooms, joining, participants, messages, nextId,
          updatedAt, reqs, inbox, bcast, lastStatus, nEph, typingShown,
          handshake, users, chatRooms, role, reactions, calls, client>>

\* what the socket handlers never write
extVars == <<handshake, users, chatRooms, role, reactions, calls, client>>

\* ---------------------------------------------------------------- events
\* One record shape for every server->client event.  `req` and `auth` are
\* history tags (which message:new invocation caused the event; whether the
\* sending principal was a participant of `chat` when the event was handled).
Ev(type, chat, user, id, text, req, auth) ==
    [type |-> type, chat |-> chat, user |-> user, id |-> id, text |-> text,
     req |-> req, auth |-> auth]

NotAuthorizedMsg == "Not authorized to send message"
FailedMsg        == "Failed to send message"

\* deliver `ev` to the sockets of `targets` whose transport is open in `st`
Deliver(ib, st, targets, ev) ==
    [c \in Conns |->
        IF c \in targets /\ st[c] = "open" THEN ib[c] (+) SetToBag({ev}) ELSE ib[c]]

InRoom(chat) == {c \in Conns : <<c, chat>> \in rooms}

\* io.emit(...): every connected socket of the namespace
IoEmit(ib, st, ev) == Deliver(ib, st, Conns, ev)

\* io.to(`chat:${chatId}`).emit(...): every socket in the room
IoToNobody(ib, chat, ev) == ib
IoToEmit(ib, chat, ev) == Deliver(ib, status, InRoom(chat), ev)

\* socket.to(`chat:${chatId}`).emit(...): every socket in the room but `s`
SocketToEmit(ib, s, chat, ev) == Deliver(ib, status, InRoom(chat) \ {s}, ev)

\* socket.emit(...): the socket itself
SocketEmit(ib, s, ev) == Deliver(ib, status, {s}, ev)

\* SELECT 1 FROM chat_participants WHERE chat_room_id = $1 AND user_id = $2
isUserInChat(chat, u) == <<chat, u>> \in participants

isUserActive(u) == activeUsers[u] # None

\* ------------------------------------------------------------------ Init
\* every socket's handshake carried a valid token of an existing user; c1 is
\* a group chat u1 created; no reaction stored, no service call made
Passed == [token |-> "valid", user |-> "found"]

\* the browser before the Chat page is shown: no chat selected, no ChatArea
\* route, not typing, no timeout pending, no typing event emitted, no key
\* pressed
NoClient == [selectedChatId |-> None, chatId |-> None, isTyping |-> FALSE,
             timer |-> None, sent |-> <<>>, keys |-> 0]

DbInit ==
    /\ handshake = [c \in Conns |-> Passed]
    /\ users = Users
    /\ chatRooms = {[id |-> "c1", type |-> "group", creator |-> "u1"]}
    /\ role = [p \in AllChats \X Accounts |->
                   IF p = <<"c1", "u1">> THEN "creator" ELSE "member"]
    /\ reactions = EmptyBag
    /\ calls = <<>>
    /\ client = NoClient

Init ==
    /\ status = [c \in Conns |-> "new"]
    /\ activeUsers = [u \in Users |-> None]
    /\ rooms = {}
    /\ joining = {}
    /\ participants \in {{<<"c1", "u1">>}, {<<"c1", "u1">>, <<"c1", "u2">>}}
    /\ messages = {}
    /\ nextId = 1
    /\ updatedAt = [ch \in Chats |-> 0]
    /\ reqs = <<>>
    /\ inbox = [c \in Conns |-> EmptyBag]
    /\ bcast = <<>>
    /\ lastStatus = [u \in Users |-> None]
    /\ nEph = 0
    /\ typingShown = {}
    /\ DbInit

\* ------------------------------------------------- connection / presence
\* io.on('connection'): activeUsers.set, io.emit('user:status', online)
Connect(s) ==
    /\ status[s] = "new"
    /\ status' = [status EXCEPT ![s] = "open"]
    /\ activeUsers' = [activeUsers EXCEPT ![SocketUser(s)] = s]
    /\ inbox' = IoEmit(inbox, status',
                       Ev("user:status", None, SocketUser(s), 0, "online", 0, TRUE))
    /\ lastStatus' = [lastStatus EXCEPT ![SocketUser(s)] = "online"]
    /\ UNCHANGED <<rooms, joining, participants, messages, nextId, updatedAt,
                   reqs, bcast, nEph, typingShown>>
    /\ UNCHANGED extVars

\* socket.on('disconnect'): Socket.IO has already taken the socket out of its
\* rooms; activeUsers.delete(userId), io.emit('user:status', offline)
Disconnect(s) ==
    /\ status[s] = "open"
    /\ status' = [status EXCEPT ![s] = "closed"]
    /\ rooms' = {p \in rooms : p[1] # s}
    /\ activeUsers' = [activeUsers EXCEPT ![SocketUser(s)] = None]
    /\ inbox' = IoEmit(inbox, status',
                       Ev("user:status", None, SocketUser(s), 0, "offline", 0, TRUE))
    /\ lastStatus' = [lastStatus EXCEPT ![SocketUser(s)] = "offline"]
    /\ typingShown' = {x \in typingShown : x[1] # s}
    /\ UNCHANGED <<joining, participants, messages, nextId, updatedAt,
                   reqs, bcast, nEph>>
    /\ UNCHANGED extVars

\* ------------------------------------------------------ chat:join / leave
\* socket.on('chat:join') up to `await isUserInChat(chatId, userId)`
ChatJoin(s, chat) ==
    /\ status[s] = "open"
    /\ <<s, chat>> \notin joining
    /\ joining' = joining \cup {<<s, chat>>}
    /\ UNCHANGED <<status, activeUsers, rooms, participants, messages, nextId,
                   updatedAt, reqs, inbox, bcast, lastStatus, nEph, typingShown>>
    /\ UNCHANGED extVars

\* the lookup returns (ok) or throws (~ok); socket.join does not look at the
\* transport, so a socket that closed meanwhile is put in the room all the same
ChatJoinResult(s, chat, ok) ==
    /\ <<s, chat>> \in joining
    /\ joining' = joining \ {<<s, chat>>}
    /\ rooms' = IF ok /\ isUserInChat(chat, SocketUser(s))
                THEN rooms \cup {<<s, chat>>}
                ELSE rooms
    /\ UNCHANGED <<status, activeUsers, participants, messages, nextId,
                   updatedAt, reqs, inbox, bcast, lastStatus, nEph, typingShown>>
    /\ UNCHANGED extVars

\* socket.on('chat:leave')
ChatLeave(s, chat) ==
    /\ status[s] = "open"
    /\ rooms' = rooms \ {<<s, chat>>}
    /\ UNCHANGED <<status, activeUsers, joining, participants, messages, nextId,
                   updatedAt, reqs, inbox, bcast, lastStatus, nEph, typingShown>>
    /\ UNCHANGED extVars

\* --------------------------------------------------- chat_participants
\* What the socket handlers can observe of the chat service's participant
\* operations on a group chat is their one committed write.  (The calls
\* themselves, with their checks and awaits, are AddParticipant* and
\* RemoveParticipant* further down.)
\* addChatParticipant: INSERT INTO chat_participants (the primary key
\* (chat_room_id, user_id) rejects a second row for the same pair)
addChatParticipant(chat, u) ==
    /\ <<chat, u>> \notin participants
    /\ participants' = participants \cup {<<chat, u>>}
    /\ role' = [role EXCEPT ![<<chat, u>>] = "member"]
    /\ UNCHANGED <<status, activeUsers, rooms, joining, messages, nextId,
                   updatedAt, reqs, inbox, bcast, lastStatus, nEph, typingShown>>
    /\ UNCHANGED <<handshake, users, chatRooms, reactions, calls, client>>

\* removeChatParticipant: DELETE FROM chat_participants WHERE ...
removeChatParticipant(chat, u) ==
    /\ participants' = participants \ {<<chat, u>>}
    /\ role' = [role EXCEPT ![<<chat, u>>] = "member"]
    /\ UNCHANGED <<status, activeUsers, rooms, joining, messages, nextId,
                   updatedAt, reqs, inbox, bcast, lastStatus, nEph, typingShown>>
    /\ UNCHANGED <<handshake, users, chatRooms, reactions, calls, client>>

\* ------------------------------------------------------------ message:new
Contents == {"hi"}

NewReq(s, chat, content) ==
    [conn |-> s, chat |-> chat, content |-> content,
     pc |-> "hcheck",          \* the await the handler is suspended at
     lookup |-> "pending",     \* history: what chat_participants held at line 47
     rowId |-> 0,              \* id of the row this invocation inserted (0 = none)
     bumped |-> FALSE,         \* history: this invocation's UPDATE chat_rooms ran
     joined |-> <<s, chat>> \in rooms,  \* history: socket was in the room on receipt
     contentType |-> "text",   \* saveMessage's defaults for a payload that
     mediaUrl |-> None,        \* carries neither (contentType = 'text', mediaUrl = null)
     senderOpen |-> TRUE,      \* history: the socket was open when the INSERT returned
     result |-> "pending"]     \* "unauthorized" | "failed" | "broadcast"

\* socket.on('message:new') up to `await isUserInChat(chatId, userId)`
MessageNew(s, chat, content) ==
    /\ status[s] = "open"
    /\ Len(reqs) < MaxReq
    /\ reqs' = Append(reqs, NewReq(s, chat, content))
    /\ UNCHANGED <<status, activeUsers, rooms, joining, participants, messages,
                   nextId, updatedAt, inbox, bcast, lastStatus, nEph, typingShown>>
    /\ UNCHANGED extVars

\* the handler's own check: `const canSend = await isUserInChat(chatId, userId)`
CanSendAlways(chat, u) == TRUE
CanSend(chat, u) == isUserInChat(chat, u)

ErrorEv(r, text) == Ev("error", reqs[r].chat, None, 0, text, r, TRUE)

\* catch (error) { socket.emit('error', { message: 'Failed to send message' }) }
HandlerCatchSilent(ib, r) == ib
HandlerCatch(ib, r) == SocketEmit(ib, reqs[r].conn, ErrorEv(r, FailedMsg))

\* the payload of the broadcast: `message`, the row INSERT ... RETURNING * gave
ClientPayload(r, row) ==
    Ev("message:new", reqs[r].chat, None, 0, reqs[r].content, r, TRUE)
MessageNewPayload(r, row) ==
    Ev("message:new", row.chat, row.sender, row.id, row.content, r, TRUE)

Failed(r) ==
    /\ reqs' = [reqs EXCEPT ![r].pc = "done", ![r].result = "failed"]
    /\ inbox' = HandlerCatch(inbox, r)

\* result of the handler's membership lookup (lines 47-51)
HandlerCheck(r, ok) ==
    /\ r \in DOMAIN reqs
    /\ reqs[r].pc = "hcheck"
    /\ LET q == reqs[r]
           u == SocketUser(q.conn)
           truth == IF isUserInChat(q.chat, u) THEN "member" ELSE "nonmember"
       IN  IF ~ok
           THEN /\ reqs' = [reqs EXCEPT ![r].pc = "done", ![r].result = "failed",
                                        ![r].lookup = "error"]
                /\ inbox' = HandlerCatch(inbox, r)
           ELSE IF ~CanSend(q.chat, u)
           THEN /\ reqs' = [reqs EXCEPT ![r].pc = "done", ![r].lookup = truth,
                                        ![r].result = "unauthorized"]
                /\ inbox' = SocketEmit(inbox, q.conn, ErrorEv(r, NotAuthorizedMsg))
           ELSE /\ reqs' = [reqs EXCEPT ![r].pc = "scheck", ![r].lookup = truth]
                /\ inbox' = inbox
    /\ UNCHANGED <<status, activeUsers, rooms, joining, participants, messages,
                   nextId, updatedAt, bcast, lastStatus, nEph, typingShown>>
    /\ UNCHANGED extVars

\* saveMessage: `const canSend = await isUserInChat(chatId, senderId)`,
\* AppError 403 when false; every throw lands in the handler's catch
SaveCheck(r, ok) ==
    /\ r \in DOMAIN reqs
    /\ reqs[r].pc = "scheck"
    /\ IF ok /\ isUserInChat(reqs[r].chat, SocketUser(reqs[r].conn))
       THEN /\ reqs' = [reqs EXCEPT ![r].pc = "insert"]
            /\ inbox' = inbox
       ELSE Failed(r)
    /\ UNCHANGED <<status, activeUsers, rooms, joining, participants, messages,
                   nextId, updatedAt, bcast, lastStatus, nEph, typingShown>>
    /\ UNCHANGED extVars

\* saveMessage: INSERT INTO messages ... RETURNING * (its own autocommit
\* statement); the column `content TEXT NOT NULL` rejects a missing content
SaveInsert(r, ok) ==
    /\ r \in DOMAIN reqs
    /\ reqs[r].pc = "insert"
    /\ IF ok /\ reqs[r].content # None
       THEN /\ messages' = messages \cup
                  {[id |-> nextId, chat |-> reqs[r].chat,
                    sender |-> SocketUser(reqs[r].conn), content |-> reqs[r].content,
                    contentType |-> reqs[r].contentType,
                    mediaUrl |-> reqs[r].mediaUrl, isDeleted |-> FALSE]}
            /\ nextId' = nextId + 1
            /\ reqs' = [reqs EXCEPT ![r].pc = "update", ![r].rowId = nextId,
                                    ![r].senderOpen = status[reqs[r].conn] = "open"]
            /\ inbox' = inbox
       ELSE /\ Failed(r)
            /\ UNCHANGED <<messages, nextId>>
    /\ UNCHANGED <<status, activeUsers, rooms, joining, participants,
                   updatedAt, bcast, lastStatus, nEph, typingShown>>
    /\ UNCHANGED extVars

RowOf(r) == CHOOSE m \in messages : m.id = reqs[r].rowId

\* saveMessage: UPDATE chat_rooms SET updated_at (a second autocommit statement),
\* return result.rows[0]; then the handler's io.to(`chat:${chatId}`).emit
SaveUpdate(r, ok) ==
    /\ r \in DOMAIN reqs
    /\ reqs[r].pc = "update"
    /\ IF ok
       THEN /\ updatedAt' = [updatedAt EXCEPT ![reqs[r].chat] = @ + 1]
            /\ reqs' = [reqs EXCEPT ![r].pc = "done", ![r].bumped = TRUE,
                                    ![r].result = "broadcast"]
            /\ inbox' = IoToEmit(inbox, reqs[r].chat, MessageNewPayload(r, RowOf(r)))
            /\ bcast' = Append(bcast,
                   [req |-> r,
                    to |-> {c \in InRoom(reqs[r].chat) : status[c] = "open"}])
       ELSE /\ Failed(r)
            /\ UNCHANGED <<updatedAt, bcast>>
    /\ UNCHANGED <<status, activeUsers, rooms, joining, participants, messages,
                   nextId, lastStatus, nEph, typingShown>>
    /\ UNCHANGED extVars

\* -------------------------------------------------- typing / read events
TypingEv(type, s, chat) ==
    Ev(type, chat, SocketUser(s), 0, "", 0, isUserInChat(chat, SocketUser(s)))

\* the sockets a socket.to(room) emit of s reaches
Recipients(s, chat) == {c \in InRoom(chat) \ {s} : status[c] = "open"}

\* socket.on('typing:start'): relayed to the room, the sender excepted; the
\* handler consults neither chat_participants nor the socket's rooms
TypingStart(s, chat) ==
    /\ status[s] = "open"
    /\ nEph < MaxEph
    /\ nEph' = nEph + 1
    /\ inbox' = SocketToEmit(inbox, s, chat, TypingEv("typing:start", s, chat))
    /\ typingShown' = typingShown \cup
                         {<<c, chat, SocketUser(s)>> : c \in Recipients(s, chat)}
    /\ UNCHANGED <<status, activeUsers, rooms, joining, participants, messages,
                   nextId, updatedAt, reqs, bcast, lastStatus>>
    /\ UNCHANGED extVars

\* socket.on('typing:stop')
TypingStop(s, chat) ==
    /\ status[s] = "open"
    /\ nEph < MaxEph
    /\ nEph' = nEph + 1
    /\ inbox' = SocketToEmit(inbox, s, chat, TypingEv("typing:stop", s, chat))
    /\ typingShown' = typingShown \
                         {<<c, chat, SocketUser(s)>> : c \in Recipients(s, chat)}
    /\ UNCHANGED <<status, activeUsers, rooms, joining, participants, messages,
                   nextId, updatedAt, reqs, bcast, lastStatus>>
    /\ UNCHANGED extVars

\* message ids a client may name in message:read: 0 stands for a value that is
\* not a UUID string (validateUuid throws), 1 for a well-formed UUID
ReadIds == {0, 1}

\* socket.on('message:read'): markMessageAsRead only validates the two ids
\* (it stores nothing), then the event is relayed to the whole room
MessageRead(s, chat, mid) ==
    /\ status[s] = "open"
    /\ nEph < MaxEph
    /\ nEph' = nEph + 1
    /\ inbox' = IF mid = 0
                THEN inbox
                ELSE IoToEmit(inbox, chat,
                        Ev("message:read", chat, SocketUser(s), mid, "", 0,
                           isUserInChat(chat, SocketUser(s))))
    /\ UNCHANGED <<status, activeUsers, rooms, joining, participants, messages,
                   nextId, updatedAt, reqs, bcast, lastStatus, typingShown>>
    /\ UNCHANGED extVars

Next ==
    \/ \E s \in Conns : Connect(s)
    \/ \E s \in Conns : Disconnect(s)
    \/ \E s \in Conns, chat \in Chats : ChatJoin(s, chat)
    \/ \E s \in Conns, chat \in Chats, ok \in BOOLEAN : ChatJoinResult(s, chat, ok)
    \/ \E s \in Conns, chat \in Chats : ChatLeave(s, chat)
    \/ \E chat \in Chats, u \in Users : addChatParticipant(chat, u)
    \/ \E chat \in Chats, u \in Users : removeChatParticipant(chat, u)

Spec == Init /\ [][Next]_vars

\* ------------------------------------------------ message pipeline runs
OnlineEv(u) == Ev("user:status", None, u, 0, "online", 0, TRUE)

\* the state after s1, s2 and s3 connected, in that order
AllOpen == [c \in Conns |-> "open"]
InboxAllOpen ==
    LET st1 == [c \in Conns |-> IF c = "s1" THEN "open" ELSE "new"]
        st2 == [c \in Conns |-> IF c = "s3" THEN "new" ELSE "open"]
    IN  IoEmit(IoEmit(IoEmit([c \in Conns |-> EmptyBag], st1, OnlineEv("u1")),
                      st2, OnlineEv("u1")), AllOpen, OnlineEv("u2"))

\* (InitMsg and both states of InitTyping are reachable under Spec: connect s1,
\* s2, s3 in that order, then join.)
\* In the message pipeline runs s1 is the device that sends; s2 (the sender's
\* other device) and s3 (another user's device) listen.  All three are
\* connected and joined to the chat, both users being participants; from there
\* the sender may leave the room or be removed from the chat, and any device
\* may disconnect.
Senders == {"s1"}

InitMsg ==
    /\ status = AllOpen
    /\ activeUsers = [u \in Users |-> IF u = "u1" THEN "s2" ELSE "s3"]
    /\ rooms = Conns \X Chats
    /\ joining = {}
    /\ participants = {<<"c1", "u1">>, <<"c1", "u2">>}
    /\ messages = {}
    /\ nextId = 1
    /\ updatedAt = [ch \in Chats |-> 0]
    /\ reqs = <<>>
    /\ inbox = InboxAllOpen
    /\ bcast = <<>>
    /\ lastStatus = [u \in Users |-> "online"]
    /\ nEph = 0
    /\ typingShown = {}
    /\ DbInit

NextMsg ==
    \/ \E s \in Conns : Disconnect(s)
    \/ \E s \in Senders, chat \in Chats : ChatLeave(s, chat)
    \/ \E s \in Senders, chat \in Chats : removeChatParticipant(chat, SocketUser(s))
    \/ \E s \in Senders, chat \in Chats, content \in Contents : MessageNew(s, chat, content)
    \/ \E r \in 1..MaxReq, ok \in BOOLEAN : HandlerCheck(r, ok)
    \/ \E r \in 1..MaxReq, ok \in BOOLEAN : SaveCheck(r, ok)
    \/ \E r \in 1..MaxReq, ok \in BOOLEAN : SaveInsert(r, ok)
    \/ \E r \in 1..MaxReq, ok \in BOOLEAN : SaveUpdate(r, ok)

SpecMsg == InitMsg /\ [][NextMsg]_vars

\* ------------------------------------------------------------------------
\* Properties of the message pipeline (checked under SpecMsg)
\* ------------------------------------------------------------------------
\* the message:new events socket c received for invocation r
MsgEvents(c, r) ==
    {e \in BagToSet(inbox[c]) : e.type = "message:new" /\ e.req = r}

\* the `error` events socket c received for invocation r
ErrEvents(c, r) ==
    {e \in BagToSet(inbox[c]) : e.type = "error" /\ e.req = r}

\* C1: for every message:new that succeeds, each socket that is in the chat's
\* room when the broadcast is emitted (the sender's own socket and the sender's
\* other device included) holds exactly one message:new event for it, that
\* event is the row the INSERT returned (server-assigned id, stored sender and
\* content), and no socket holds a second or a different event for it.
C1_BroadcastExactlyOncePersistedRow ==
    \A i \in DOMAIN bcast :
        LET r   == bcast[i].req
            row == RowOf(r)
            ev  == Ev("message:new", row.chat, row.sender, row.id, row.content, r, TRUE)
        IN  /\ reqs[r].rowId > 0
            /\ row \in messages
            /\ \A c \in Conns :
                 /\ c \in bcast[i].to => CopiesIn(ev, inbox[c]) = 1
                 /\ \A e \in MsgEvents(c, r) : e = ev /\ CopiesIn(e, inbox[c]) = 1

\* C1 witness: a message of s1 was broadcast while s1, its other device s2 and
\* s3 were all in the room
C1_Witness ==
    \E i \in DOMAIN bcast :
        /\ bcast[i].to = {"s1", "s2", "s3"}
        /\ reqs[bcast[i].req].conn = "s1"
        /\ \A c \in Conns : MsgEvents(c, bcast[i].req) # {}

\* C3: every message:new event a socket holds is a committed row of table
\* messages; an invocation that ended in the catch block (a query of the
\* handler or of saveMessage threw) was broadcast to nobody, and its socket, if
\* still open, holds exactly one 'Failed to send message' error for it.
C3_NoBroadcastWithoutPersistence ==
    /\ \A c \in Conns : \A e \in BagToSet(inbox[c]) :
          e.type = "message:new" =>
             \E m \in messages :
                 /\ m.id = e.id /\ m.chat = e.chat
                 /\ m.sender = e.user /\ m.content = e.text
                 /\ reqs[e.req].rowId = m.id
    /\ \A r \in DOMAIN reqs :
          reqs[r].result = "failed" =>
             /\ \A c \in Conns : MsgEvents(c, r) = {}
             /\ \A i \in DOMAIN bcast : bcast[i].req # r
             /\ status[reqs[r].conn] = "open" =>
                   CopiesIn(ErrorEv(r, FailedMsg), inbox[reqs[r].conn]) = 1

\* C3 witness: a query inside saveMessage failed after the handler's own
\* check had passed, the sender still being connected
C3_Witness ==
    \E r \in DOMAIN reqs :
        /\ reqs[r].result = "failed"
        /\ reqs[r].lookup = "member"
        /\ status[reqs[r].conn] = "open"
        /\ ErrEvents(reqs[r].conn, r) # {}

\* position of invocation r's broadcast in the emission order
Pos(r) == CHOOSE i \in DOMAIN bcast : bcast[i].req = r

\* C5: two message:new events of one socket for one chat are inserted and
\* broadcast in the order the server received them.
C5_PerConnectionOrder ==
    \A r1, r2 \in DOMAIN reqs :
        (r1 < r2 /\ reqs[r1].conn = reqs[r2].conn /\ reqs[r1].chat = reqs[r2].chat) =>
            /\ (reqs[r1].result = "broadcast" /\ reqs[r2].result = "broadcast")
                  => Pos(r1) < Pos(r2)
            /\ (reqs[r1].rowId # 0 /\ reqs[r2].rowId # 0)
                  => reqs[r1].rowId < reqs[r2].rowId

\* C6: saveMessage is atomic: a finished invocation has its row iff it bumped
\* chat_rooms.updated_at, and one that reported an error left no row.
C6_SaveMessageAtomic ==
    \A r \in DOMAIN reqs :
        /\ reqs[r].result = "failed" => reqs[r].rowId = 0
        /\ reqs[r].pc = "done" => (reqs[r].rowId # 0 <=> reqs[r].bumped)

\* C7: a message:new whose membership lookup finds that the sender is no
\* longer a participant is rejected: it ends with 'Not authorized to send
\* message' emitted to the sending socket alone, inserts no row, bumps no
\* timestamp and is broadcast to nobody.
C7_RemovedMemberRejected ==
    \A r \in DOMAIN reqs :
        reqs[r].lookup = "nonmember" =>
            /\ reqs[r].pc = "done"
            /\ reqs[r].result = "unauthorized"
            /\ reqs[r].rowId = 0
            /\ ~reqs[r].bumped
            /\ \A i \in DOMAIN bcast : bcast[i].req # r
            /\ \A c \in Conns :
                 /\ MsgEvents(c, r) = {}
                 /\ c # reqs[r].conn => ErrEvents(c, r) = {}
            /\ ErrEvents(reqs[r].conn, r) \subseteq {ErrorEv(r, NotAuthorizedMsg)}
            /\ status[reqs[r].conn] = "open" =>
                  CopiesIn(ErrorEv(r, NotAuthorizedMsg), inbox[reqs[r].conn]) = 1

\* C7 witness: the socket was in the chat's room when it sent the message, its
\* user had been removed from the chat, and the message was rejected
C7_Witness ==
    \E r \in DOMAIN reqs :
        /\ reqs[r].joined
        /\ reqs[r].lookup = "nonmember"
        /\ reqs[r].result = "unauthorized"
        /\ status[reqs[r].conn] = "open"
        /\ <<reqs[r].chat, SocketUser(reqs[r].conn)>> \notin participants

\* C8: a message is persisted or broadcast only if its socket was in the
\* chat's room when the server received the message:new event.
C8_PublishRequiresSubscription ==
    \A r \in DOMAIN reqs :
        (reqs[r].rowId # 0 \/ reqs[r].result = "broadcast") => reqs[r].joined

\* ------------------------------------------------------------------------
\* Presence and chat:join (checked under Spec, from a cold start)
\* ------------------------------------------------------------------------
\* the `error` events socket c holds
Errors(c) == {e \in BagToSet(inbox[c]) : e.type = "error"}

\* C2: when a chat:join handler finishes for a principal who is not a
\* participant of the chat, the principal's socket (if still open) has been
\* sent an error event it did not hold before, and the socket is not in the
\* chat's room afterwards (so no room broadcast reaches it).
C2_JoinByNonMemberFails ==
    [][\A s \in Conns, chat \in Chats :
          (/\ <<s, chat>> \in joining
           /\ <<s, chat>> \notin joining'
           /\ ~isUserInChat(chat, SocketUser(s)))
          => /\ <<s, chat>> \notin rooms'
             /\ status[s] = "open" =>
                   \E e \in Errors(s)' : CopiesIn(e, inbox'[s]) > CopiesIn(e, inbox[s])
      ]_vars

\* a principal has at least one live connection
HasLiveConnection(u) == \E c \in Conns : status[c] = "open" /\ SocketUser(c) = u

\* C4: a principal is reported online (isUserActive, and the last user:status
\* broadcast about them) iff they have at least one live connection.
C4_PresenceIsUnionOfConnections ==
    \A u \in Users :
        /\ isUserActive(u) <=> HasLiveConnection(u)
        /\ lastStatus[u] = "online" <=> HasLiveConnection(u)

\* ------------------------------------------------------------------------
\* Typing and read receipts (checked under SpecTyping / LiveTyping)
\* ------------------------------------------------------------------------
\* the three sockets are connected, nobody has joined yet; u2 may or may not
\* be a participant of the chat
InitTyping ==
    /\ status = AllOpen
    /\ activeUsers = [u \in Users |-> IF u = "u1" THEN "s2" ELSE "s3"]
    /\ rooms = {}
    /\ joining = {}
    /\ participants \in {{<<"c1", "u1">>}, {<<"c1", "u1">>, <<"c1", "u2">>}}
    /\ messages = {}
    /\ nextId = 1
    /\ updatedAt = [ch \in Chats |-> 0]
    /\ reqs = <<>>
    /\ inbox = InboxAllOpen
    /\ bcast = <<>>
    /\ lastStatus = [u \in Users |-> "online"]
    /\ nEph = 0
    /\ typingShown = {}
    /\ DbInit

\* a pending membership lookup returns
LookupReturns == \E s \in Conns, chat \in Chats, ok \in BOOLEAN : ChatJoinResult(s, chat, ok)

NextTyping ==
    \/ \E s \in Conns : Disconnect(s)
    \/ \E s \in Conns, chat \in Chats : ChatJoin(s, chat)
    \/ LookupReturns
    \/ \E s \in Conns, chat \in Chats : ChatLeave(s, chat)
    \/ \E s \in Conns, chat \in Chats : TypingStart(s, chat)
    \/ \E s \in Conns, chat \in Chats : TypingStop(s, chat)
    \/ \E s \in Conns, chat \in Chats, mid \in ReadIds : MessageRead(s, chat, mid)

SpecTyping == InitTyping /\ [][NextTyping]_vars

\* The server's own steps are fair: a query that was sent is answered and its
\* continuation runs.  Nothing obliges a client to send anything.
LiveTyping == SpecTyping /\ WF_vars(LookupReturns)

\* C9: no socket holds a typing:start, typing:stop or message:read event that
\* was sent by a principal who was not a participant of the chat it names.
C9_EphemeralEventsNeedMembership ==
    \A c \in Conns : \A e \in BagToSet(inbox[c]) :
        e.type \in {"typing:start", "typing:stop", "message:read"} => e.auth

\* C10: once a subscriber has been sent typing:start for (chat, principal), it
\* is eventually sent typing:stop for the same (chat, principal), whatever the
\* client does.
C10_TypingExpires ==
    \A c \in Conns, chat \in Chats, u \in Users :
        (<<c, chat, u>> \in typingShown) ~> (<<c, chat, u>> \notin typingShown)

\* ------------------------------------------------------------------------
\* Rejected events (checked under SpecReject)
\* ------------------------------------------------------------------------
\* The three sockets are connected and nobody has joined yet; u2 may or may
\* not be a participant.  Any device may ask to join; s3, the device of the
\* user who may be no participant, sends messages.
NextReject ==
    \/ \E s \in Conns : Disconnect(s)
    \/ \E s \in Conns, chat \in Chats : ChatJoin(s, chat)
    \/ LookupReturns
    \/ \E chat \in Chats, content \in Contents : MessageNew("s3", chat, content)
    \/ \E r \in 1..MaxReq, ok \in BOOLEAN : HandlerCheck(r, ok)
    \/ \E r \in 1..MaxReq, ok \in BOOLEAN : SaveCheck(r, ok)
    \/ \E r \in 1..MaxReq, ok \in BOOLEAN : SaveInsert(r, ok)
    \/ \E r \in 1..MaxReq, ok \in BOOLEAN : SaveUpdate(r, ok)

SpecReject == InitTyping /\ [][NextReject]_vars

\* this step ends a chat:join of a principal who is no participant
JoinRejected(s, chat) ==
    /\ <<s, chat>> \in joining
    /\ <<s, chat>> \notin joining'
    /\ ~isUserInChat(chat, SocketUser(s))

\* this step ends a message:new with the handler's membership check failing
SendRejected(r) ==
    /\ r \in DOMAIN reqs
    /\ reqs[r].pc = "hcheck"
    /\ reqs'[r].result = "unauthorized"

\* this step delivers an `error` event to s and changes nothing else: no other
\* socket is sent anything, no socket is closed, no room changes
SurfacedOnlyTo(s) ==
    /\ \A c \in Conns \ {s} : inbox'[c] = inbox[c]
    /\ status' = status
    /\ rooms' = rooms
    /\ status[s] = "open" =>
          \E e \in BagToSet(inbox'[s]) :
              /\ e.type = "error"
              /\ CopiesIn(e, inbox'[s]) = CopiesIn(e, inbox[s]) + 1

\* C11: when a message:new or a chat:join is rejected for lack of membership,
\* an error is sent to the originating socket and to no other socket, and the
\* originating socket stays open with its rooms unchanged.
C11_RejectionSurfacedToOriginatorOnly ==
    [][ /\ \A s \in Conns, chat \in Chats :
              JoinRejected(s, chat) => SurfacedOnlyTo(s)
        /\ \A r \in 1..MaxReq :
              SendRejected(r) => SurfacedOnlyTo(reqs[r].conn) ]_vars

\* ------------------------------------------------------------------------
\* Presence fan-out (checked under Spec)
\* ------------------------------------------------------------------------
\* the two principals are participants of a common chat
ShareChat(u, v) ==
    \E chat \in Chats : isUserInChat(chat, u) /\ isUserInChat(chat, v)

\* this step delivers one more copy of event e to socket c
Receives(c, e) == CopiesIn(e, inbox'[c]) > CopiesIn(e, inbox[c])

\* C12: a presence event about a principal is delivered only to sockets of
\* principals who share a chat with that principal (the principal's own
\* sockets aside): a connected principal sharing no chat with them is sent
\* no user:status event about them.
C12_PresenceOnlyToChatSharers ==
    [][ \A c \in Conns : \A e \in BagToSet(inbox'[c]) :
           (e.type = "user:status" /\ Receives(c, e) /\ e.user # SocketUser(c))
              => ShareChat(e.user, SocketUser(c)) ]_vars

\* ------------------------------------------------------------------------
\* Socket handshake (checked under SpecAuth)
\* ------------------------------------------------------------------------
\* what a client may put in socket.handshake.auth.token: nothing, a token
\* jwt.verify rejects (forged, expired), a token this server issued
Tokens == {"absent", "invalid", "valid"}

NoHandshake == [token |-> None, user |-> "none"]

\* jwt.verify(token, process.env.JWT_SECRET) returns (does not throw)
jwtVerifyAny(tok) == TRUE
jwtVerify(tok) == tok = "valid"

\* the second middleware: `const userId = socket.user?.id; if (!userId) ...`
UserCheck(user) == user = "found"

\* authenticateSocket up to `await getUserById(decoded.userId)`; a missing
\* token and a token jwt.verify throws on end in next(new Error(...))
Handshake(s, tok) ==
    /\ status[s] = "idle"
    /\ handshake' = [handshake EXCEPT ![s] = [token |-> tok, user |-> "none"]]
    /\ status' = [status EXCEPT ![s] =
                     IF tok = "absent" \/ ~jwtVerify(tok) THEN "refused" ELSE "auth"]
    /\ UNCHANGED <<activeUsers, rooms, joining, participants, messages, nextId,
                   updatedAt, reqs, inbox, bcast, lastStatus, nEph, typingShown>>
    /\ UNCHANGED <<users, chatRooms, role, reactions, calls, client>>

\* getUserById returns the row, returns undefined or throws (~ok); then
\* `socket.user = user; next()` and the second middleware, or next(new Error)
GetUserReturns(s, ok) ==
    /\ status[s] = "auth"
    /\ LET user == IF ~ok THEN "threw"
                   ELSE IF SocketUser(s) \in users THEN "found" ELSE "missing"
       IN  /\ handshake' = [handshake EXCEPT ![s].user = user]
           /\ status' = [status EXCEPT ![s] =
                            IF user = "found" /\ UserCheck(user) THEN "new" ELSE "refused"]
    /\ UNCHANGED <<activeUsers, rooms, joining, participants, messages, nextId,
                   updatedAt, reqs, inbox, bcast, lastStatus, nEph, typingShown>>
    /\ UNCHANGED <<users, chatRooms, role, reactions, calls, client>>

\* No client has connected yet.  u2's account may have been deleted after a
\* token was issued to it (then u2 has no chat_participants row either).
InitAuth ==
    /\ status = [c \in Conns |-> "idle"]
    /\ activeUsers = [u \in Users |-> None]
    /\ rooms = {}
    /\ joining = {}
    /\ users \in {Users, {"u1"}}
    /\ participants \in {{<<"c1", "u1">>}, {<<"c1", u>> : u \in users}}
    /\ messages = {}
    /\ nextId = 1
    /\ updatedAt = [ch \in Chats |-> 0]
    /\ reqs = <<>>
    /\ inbox = [c \in Conns |-> EmptyBag]
    /\ bcast = <<>>
    /\ lastStatus = [u \in Users |-> None]
    /\ nEph = 0
    /\ typingShown = {}
    /\ handshake = [c \in Conns |-> NoHandshake]
    /\ client = NoClient
    /\ chatRooms = {[id |-> "c1", type |-> "group", creator |-> "u1"]}
    /\ role = [p \in AllChats \X Accounts |->
                   IF p = <<"c1", "u1">> THEN "creator" ELSE "member"]
    /\ reactions = EmptyBag
    /\ calls = <<>>

NextAuth ==
    \/ \E s \in Conns, tok \in Tokens : Handshake(s, tok)
    \/ \E s \in Conns, ok \in BOOLEAN : GetUserReturns(s, ok)
    \/ \E s \in Conns : Connect(s)
    \/ \E s \in Conns : Disconnect(s)
    \/ \E s \in Conns, chat \in Chats : ChatJoin(s, chat)
    \/ LookupReturns
    \/ \E s \in Conns, chat \in Chats : TypingStart(s, chat)

SpecAuth == InitAuth /\ [][NextAuth]_vars

\* the handshake of s carried a valid token of a user that exists
Authenticated(s) == handshake[s] = Passed

\* C13: a socket whose handshake did not carry a valid token of an existing
\* user is refused before anything is processed: it is never connected, no
\* chat:join of it is pending or was granted, it is sent nothing, and every
\* presence or typing event there is names a user with an authenticated socket.
C13_NoHandlerWithoutAuthentication ==
    /\ \A s \in Conns : ~Authenticated(s) =>
          /\ status[s] \in {"idle", "auth", "refused"}
          /\ \A chat \in Chats : <<s, chat>> \notin joining \cup rooms
          /\ \A u \in Users : activeUsers[u] # s
          /\ inbox[s] = EmptyBag
    /\ \A u \in Users : lastStatus[u] # None =>
          \E s \in Conns : SocketUser(s) = u /\ Authenticated(s)
    /\ \A c \in Conns : \A e \in BagToSet(inbox[c]) :
          e.type \in {"user:status", "typing:start"} =>
             \E s \in Conns : SocketUser(s) = e.user /\ Authenticated(s)

\* s2 was refused for a token that does not verify and s3 for a valid token
\* of a deleted account, while s1 connected, joined and has been sent events
C13_Witness ==
    /\ handshake["s2"].token = "invalid" /\ status["s2"] = "refused"
    /\ handshake["s3"] = [token |-> "valid", user |-> "missing"]
    /\ status["s3"] = "refused"
    /\ status["s1"] = "open" /\ <<"s1", "c1">> \in rooms
    /\ inbox["s1"] # EmptyBag

\* ------------------------------------------------------------------------
\* Service calls (the REST side): message and chat services
\* ------------------------------------------------------------------------
\* Each call is a record; `pc` is the await it is suspended at.  `fault`
\* records that a statement of the call was answered with a database error.
NewCall(op, u, other, chat, msg, arg, ids) ==
    [op |-> op, user |-> u, other |-> other, chat |-> chat, msg |-> msg,
     arg |-> arg, ids |-> ids, pc |-> "start", result |-> "pending",
     fault |-> FALSE, count |-> 0]

\* the state the socket handlers own, which no service call touches
socketVars == <<status, activeUsers, rooms, joining, updatedAt, reqs, inbox,
                bcast, lastStatus, nEph, typingShown, handshake, nextId, client>>

\* no client is connected
NoSockets ==
    /\ status = [c \in Conns |-> "idle"]
    /\ activeUsers = [u \in Users |-> None]
    /\ rooms = {}
    /\ joining = {}
    /\ updatedAt = [ch \in Chats |-> 0]
    /\ reqs = <<>>
    /\ inbox = [c \in Conns |-> EmptyBag]
    /\ bcast = <<>>
    /\ lastStatus = [u \in Users |-> None]
    /\ nEph = 0
    /\ typingShown = {}
    /\ handshake = [c \in Conns |-> NoHandshake]
    /\ client = NoClient

Call(k) == calls[k]
Running(k, op, pc) == k \in DOMAIN calls /\ calls[k].op = op /\ calls[k].pc = pc

\* the call ends: it returns `result`, or throws (a "4xx" AppError, "error")
Return(k, result) ==
    [calls EXCEPT ![k].pc = "done", ![k].result = result]
Throw(k) ==
    [calls EXCEPT ![k].pc = "done", ![k].result = "error", ![k].fault = TRUE]

\* ------------------------------------------------- message_reactions
MsgIds == {1, 2}
Symbols == {"like"}

\* the row of message m, if there is one
HasMessage(m) == \E row \in messages : row.id = m
MessageRow(m) == CHOOSE row \in messages : row.id = m

\* INSERT INTO message_reactions ... ON CONFLICT (message_id, user_id,
\* reaction) DO NOTHING: the table after the statement
InsertAlways(rs, key) == rs (+) SetToBag({key})
OnConflictDoNothing(rs, key) ==
    IF CopiesIn(key, rs) > 0 THEN rs ELSE rs (+) SetToBag({key})

\* addMessageReaction(messageId, userId, reaction) is called
addMessageReaction(m, u, x) ==
    /\ Len(calls) < MaxCalls
    /\ calls' = Append(calls,
          [NewCall("react", u, None, None, m, x, {}) EXCEPT !.pc = "select"])
    /\ UNCHANGED <<socketVars, participants, messages, users, chatRooms, role,
                   reactions>>

\* SELECT chat_room_id FROM messages WHERE id = $1; AppError 404 if no row
ReactSelect(k, ok) ==
    /\ Running(k, "react", "select")
    /\ calls' = IF ~ok THEN Throw(k)
                ELSE IF ~HasMessage(Call(k).msg) THEN Return(k, "404")
                ELSE [calls EXCEPT ![k].pc = "member",
                                   ![k].chat = MessageRow(Call(k).msg).chat]
    /\ UNCHANGED <<socketVars, participants, messages, users, chatRooms, role,
                   reactions>>

\* const canReact = await isUserInChat(chat_room_id, userId); AppError 403
ReactMember(k, ok) ==
    /\ Running(k, "react", "member")
    /\ calls' = IF ~ok THEN Throw(k)
                ELSE IF ~isUserInChat(Call(k).chat, Call(k).user) THEN Return(k, "403")
                ELSE [calls EXCEPT ![k].pc = "insert"]
    /\ UNCHANGED <<socketVars, participants, messages, users, chatRooms, role,
                   reactions>>

ReactionKey(k) == <<Call(k).msg, Call(k).user, Call(k).arg>>

\* the INSERT ... ON CONFLICT DO NOTHING RETURNING *; `return result.rows[0]`
\* is the new row ("created") or undefined when the row was there ("noop");
\* the foreign keys of the table reject a row whose message or user is gone
ReactInsert(k, ok) ==
    /\ Running(k, "react", "insert")
    /\ IF ok /\ HasMessage(Call(k).msg) /\ Call(k).user \in users
       THEN /\ reactions' = OnConflictDoNothing(reactions, ReactionKey(k))
            /\ calls' = Return(k, IF reactions' = reactions THEN "noop" ELSE "created")
       ELSE /\ reactions' = reactions
            /\ calls' = Throw(k)
    /\ UNCHANGED <<socketVars, participants, messages, users, chatRooms, role>>

\* removeMessageReaction: one DELETE FROM message_reactions WHERE ...
removeMessageReaction(m, u, x) ==
    /\ CopiesIn(<<m, u, x>>, reactions) > 0
    /\ reactions' = [key \in DOMAIN reactions \ {<<m, u, x>>} |-> reactions[key]]
    /\ UNCHANGED <<socketVars, participants, messages, users, chatRooms, role,
                   calls>>

\* message 1 was sent to c1 by u1; there is no message 2; u2 may or may not
\* be a participant of c1
Message1 ==
    [id |-> 1, chat |-> "c1", sender |-> "u1", content |-> "hi",
     contentType |-> "text", mediaUrl |-> None, isDeleted |-> FALSE]

InitReact ==
    /\ NoSockets
    /\ nextId = 2
    /\ messages = {Message1}
    /\ participants \in {{<<"c1", "u1">>}, {<<"c1", "u1">>, <<"c1", "u2">>}}
    /\ users = Users
    /\ chatRooms = {[id |-> "c1", type |-> "group", creator |-> "u1"]}
    /\ role = [p \in AllChats \X Accounts |->
                   IF p = <<"c1", "u1">> THEN "creator" ELSE "member"]
    /\ reactions = EmptyBag
    /\ calls = <<>>

NextReact ==
    \/ \E m \in MsgIds, u \in Users, x \in Symbols : addMessageReaction(m, u, x)
    \/ \E k \in 1..MaxCalls, ok \in BOOLEAN : ReactSelect(k, ok)
    \/ \E k \in 1..MaxCalls, ok \in BOOLEAN : ReactMember(k, ok)
    \/ \E k \in 1..MaxCalls, ok \in BOOLEAN : ReactInsert(k, ok)
    \/ \E m \in MsgIds, u \in Users, x \in Symbols : removeMessageReaction(m, u, x)
    \/ \E u \in Users : removeChatParticipant("c1", u)

SpecReact == InitReact /\ [][NextReact]_vars

\* this step is the INSERT of call k being answered without an error
InsertAnswered(k) ==
    /\ Running(k, "react", "insert")
    /\ calls'[k].pc = "done"
    /\ ~calls'[k].fault

\* C14: adding a reaction is idempotent.  There is never more than one row per
\* (message, user, reaction); an add whose INSERT is answered returns success,
\* never an error, and leaves exactly one row for its key; and when the row
\* was already there (a second add, sequential or concurrent) the table is
\* left as it was.
C14_ReactionAddIdempotent ==
    /\ [](\A key \in DOMAIN reactions : reactions[key] <= 1)
    /\ [][\A k \in 1..MaxCalls : InsertAnswered(k) =>
            /\ calls'[k].result \in {"created", "noop"}
            /\ CopiesIn(ReactionKey(k), reactions') = 1
            /\ CopiesIn(ReactionKey(k), reactions) = 1 =>
                  reactions' = reactions /\ calls'[k].result = "noop"]_vars

\* two adds of the same reaction have returned: the first created the row, the
\* second was a no-op success, and one row is stored
C14_Witness ==
    /\ Len(calls) = 2
    /\ ReactionKey(1) = ReactionKey(2)
    /\ Call(1).result = "created" /\ Call(2).result = "noop"
    /\ CopiesIn(ReactionKey(1), reactions) = 1

\* ------------------------------------------------------ deleteMessage
DeletedText == "[Message deleted]"

\* `message.rows[0].sender_id !== userId` is false
IsSenderAny(row, u) == TRUE
IsSender(row, u) == row.sender = u

\* deleteMessage(messageId, userId) is called
deleteMessage(m, u) ==
    /\ Len(calls) < MaxCalls
    /\ calls' = Append(calls,
          [NewCall("delete", u, None, None, m, None, {}) EXCEPT !.pc = "select"])
    /\ UNCHANGED <<socketVars, participants, messages, users, chatRooms, role,
                   reactions>>

\* SELECT * FROM messages WHERE id = $1; AppError 404 if there is no row,
\* AppError 403 if the row's sender_id is not the requester
DeleteSelect(k, ok) ==
    /\ Running(k, "delete", "select")
    /\ calls' = IF ~ok THEN Throw(k)
                ELSE IF ~HasMessage(Call(k).msg) THEN Return(k, "404")
                ELSE IF ~IsSender(MessageRow(Call(k).msg), Call(k).user)
                THEN Return(k, "403")
                ELSE [calls EXCEPT ![k].pc = "update"]
    /\ UNCHANGED <<socketVars, participants, messages, users, chatRooms, role,
                   reactions>>

SoftDeleted(row) == [row EXCEPT !.isDeleted = TRUE, !.content = DeletedText]

\* UPDATE messages SET is_deleted = true, content = '[Message deleted]'
\* WHERE id = $1
DeleteUpdate(k, ok) ==
    /\ Running(k, "delete", "update")
    /\ IF ok
       THEN /\ messages' = {IF row.id = Call(k).msg THEN SoftDeleted(row) ELSE row :
                               row \in messages}
            /\ calls' = Return(k, "ok")
       ELSE /\ messages' = messages
            /\ calls' = Throw(k)
    /\ UNCHANGED <<socketVars, participants, users, chatRooms, role, reactions>>

NextDelete ==
    \/ \E m \in MsgIds, u \in Users : deleteMessage(m, u)
    \/ \E k \in 1..MaxCalls, ok \in BOOLEAN : DeleteSelect(k, ok)
    \/ \E k \in 1..MaxCalls, ok \in BOOLEAN : DeleteUpdate(k, ok)
    \/ \E m \in MsgIds, u \in Users, x \in Symbols : addMessageReaction(m, u, x)
    \/ \E k \in 1..MaxCalls, ok \in BOOLEAN : ReactSelect(k, ok)
    \/ \E k \in 1..MaxCalls, ok \in BOOLEAN : ReactMember(k, ok)
    \/ \E k \in 1..MaxCalls, ok \in BOOLEAN : ReactInsert(k, ok)

SpecDelete == InitReact /\ [][NextDelete]_vars

\* this step is the SELECT of deleteMessage call k being answered
SelectAnswered(k) ==
    /\ Running(k, "delete", "select")
    /\ calls'[k].pc # "select"
    /\ ~calls'[k].fault

\* C15: a stored message changes only by the UPDATE of a deleteMessage call
\* made by its sender, which sets is_deleted and replaces the content; a
\* deleteMessage by anybody else ends with not-authorized (403) and one for a
\* message that does not exist with not-found (404), both leaving every
\* message as it was.
C15_OnlySenderSoftDeletes ==
    [][ /\ \A row \in messages : \A row2 \in messages' :
              (row2.id = row.id /\ row2 # row) =>
                 /\ row2 = SoftDeleted(row)
                 /\ \E k \in 1..MaxCalls :
                       /\ Running(k, "delete", "update")
                       /\ Call(k).msg = row.id
                       /\ Call(k).user = row.sender
        /\ {row.id : row \in messages'} = {row.id : row \in messages}
        /\ \A k \in 1..MaxCalls : SelectAnswered(k) =>
              /\ ~HasMessage(Call(k).msg) =>
                    calls'[k].result = "404" /\ messages' = messages
              /\ (HasMessage(Call(k).msg)
                    /\ MessageRow(Call(k).msg).sender # Call(k).user) =>
                    calls'[k].result = "403" /\ messages' = messages ]_vars

\* u2 tried to delete u1's message and got 403; u1 deleted it
C15_Witness ==
    /\ \E j, k \in DOMAIN calls :
          /\ Call(j).op = "delete" /\ Call(j).msg = 1 /\ Call(j).user = "u2"
          /\ Call(j).result = "403"
          /\ Call(k).op = "delete" /\ Call(k).msg = 1 /\ Call(k).user = "u1"
          /\ Call(k).result = "ok"
    /\ SoftDeleted(Message1) \in messages

\* ------------------------------------------------------------------------
\* Chat service: transactions
\* ------------------------------------------------------------------------
\* transaction(callback) runs BEGIN, the callback's statements on one pooled
\* client, COMMIT.  Under PostgreSQL's default isolation (READ COMMITTED) what
\* the callback wrote is seen by no other statement before COMMIT, so a call's
\* writes are kept in its record (its pc is "commit") and reach the tables in
\* the commit step; a failed statement or COMMIT ends in ROLLBACK, which
\* leaves the tables as they are.  query(), the pool's autocommit statement,
\* reads and writes the tables directly.

\* the limit of 300 members per group, scaled down
GroupLimit == 2

Members(chat) == {u \in Accounts : <<chat, u>> \in participants}
HasChat(chat) == \E room \in chatRooms : room.id = chat
ChatRow(chat) == CHOOSE room \in chatRooms : room.id = chat

\* getChatById: chat_rooms JOIN chat_participants JOIN users ... GROUP BY
\* cr.id gives no row for a chat that does not exist or has no participant
getChatById(chat) == HasChat(chat) /\ Members(chat) # {}

\* an account deletion holds the users row of u until it commits: statements
\* that insert a row referencing u wait for it
Locked(u) == \E k \in DOMAIN calls : Running(k, "account", "commit") /\ Call(k).user = u

\* the chat_participants rows call k has written and not yet committed
PendingRows(k) ==
    IF k \in DOMAIN calls /\ Call(k).pc = "commit" /\ Call(k).arg # "existing"
    THEN CASE Call(k).op = "addp"   -> {<<Call(k).chat, Call(k).user>>}
           [] Call(k).op = "group"  ->
                 {<<Call(k).chat, u>> : u \in Call(k).ids \cup {Call(k).user}}
           [] Call(k).op = "direct" ->
                 {<<Call(k).chat, Call(k).user>>, <<Call(k).chat, Call(k).other>>}
           [] OTHER -> {}
    ELSE {}

PendingUsers == {p[2] : p \in UNION {PendingRows(k) : k \in DOMAIN calls}}

serviceFrame == <<socketVars, messages, reactions>>

\* ---------------------------------------------------- createGroupChat
\* createGroupChat(name, creatorId, participantIds); a list longer than
\* limit - 1 is refused before the transaction starts
createGroupChat(creator, ids) ==
    /\ Len(calls) < MaxCalls
    /\ LET k == Len(calls) + 1
           call == NewCall("group", creator, None, NewIds[k], 0, None, ids)
       IN  calls' = Append(calls,
               IF Cardinality(ids) > GroupLimit - 1
               THEN [call EXCEPT !.pc = "done", !.result = "400"]
               ELSE [call EXCEPT !.pc = "insert"])
    /\ UNCHANGED <<serviceFrame, participants, users, chatRooms, role>>

\* INSERT INTO chat_rooms, INSERT the creator with role 'creator', INSERT
\* every other id of the list with role 'member' (foreign keys: the users exist)
GroupInsert(k, ok) ==
    /\ Running(k, "group", "insert")
    /\ \A u \in Call(k).ids \cup {Call(k).user} : ~Locked(u)
    /\ calls' = IF ok /\ Call(k).ids \cup {Call(k).user} \subseteq users
                THEN [calls EXCEPT ![k].pc = "commit"]
                ELSE Throw(k)
    /\ UNCHANGED <<serviceFrame, participants, users, chatRooms, role>>

GroupCommit(k, ok) ==
    /\ Running(k, "group", "commit")
    /\ IF ok
       THEN /\ chatRooms' = chatRooms \cup
                   {[id |-> Call(k).chat, type |-> "group", creator |-> Call(k).user]}
            /\ participants' = participants \cup PendingRows(k)
            /\ role' = [p \in DOMAIN role |->
                           IF p = <<Call(k).chat, Call(k).user>> THEN "creator"
                           ELSE IF p \in PendingRows(k) THEN "member" ELSE role[p]]
            /\ calls' = Return(k, "ok")
       ELSE /\ calls' = Throw(k)
            /\ UNCHANGED <<chatRooms, participants, role>>
    /\ UNCHANGED <<serviceFrame, users>>

\* -------------------------------------------------- addChatParticipant
\* addChatParticipant(chatId, userId, role) is called: transaction(...)
AddParticipantCall(chat, u, r) ==
    /\ Len(calls) < MaxCalls
    /\ calls' = Append(calls,
          [NewCall("addp", u, None, chat, 0, r, {}) EXCEPT !.pc = "read"])
    /\ UNCHANGED <<serviceFrame, participants, users, chatRooms, role>>

\* `const chat = await getChatById(chatId)` goes through the pool, not the
\* transaction's client; 404 without a chat, 400 for a direct chat, 400 when
\* chat.participants.length has reached the limit
AddParticipantRead(k, ok) ==
    /\ Running(k, "addp", "read")
    /\ calls' = IF ~ok THEN Throw(k)
                ELSE IF ~getChatById(Call(k).chat) THEN Return(k, "404")
                ELSE IF ChatRow(Call(k).chat).type # "group" THEN Return(k, "400")
                ELSE IF Cardinality(Members(Call(k).chat)) >= GroupLimit
                THEN [Return(k, "400") EXCEPT ![k].count =
                         Cardinality(Members(Call(k).chat))]
                ELSE [calls EXCEPT ![k].pc = "insert",
                                   ![k].count = Cardinality(Members(Call(k).chat))]
    /\ UNCHANGED <<serviceFrame, participants, users, chatRooms, role>>

\* INSERT INTO chat_participants ... RETURNING * on the transaction's client;
\* the primary key rejects a pair that is there, and the statement waits while
\* another transaction holds the same pair uncommitted
AddParticipantInsert(k, ok) ==
    /\ Running(k, "addp", "insert")
    /\ ~Locked(Call(k).user)
    /\ \A j \in DOMAIN calls : <<Call(k).chat, Call(k).user>> \notin PendingRows(j)
    /\ calls' = IF /\ ok
                   /\ <<Call(k).chat, Call(k).user>> \notin participants
                   /\ HasChat(Call(k).chat)
                   /\ Call(k).user \in users
                THEN [calls EXCEPT ![k].pc = "commit"]
                ELSE Throw(k)
    /\ UNCHANGED <<serviceFrame, participants, users, chatRooms, role>>

AddParticipantCommit(k, ok) ==
    /\ Running(k, "addp", "commit")
    /\ IF ok
       THEN /\ participants' = participants \cup PendingRows(k)
            /\ role' = [role EXCEPT ![<<Call(k).chat, Call(k).user>>] = Call(k).arg]
            /\ calls' = Return(k, "ok")
       ELSE /\ calls' = Throw(k)
            /\ UNCHANGED <<participants, role>>
    /\ UNCHANGED <<serviceFrame, users, chatRooms>>

\* ----------------------------------------------- removeChatParticipant
\* removeChatParticipant(chatId, userId) is called (no transaction)
RemoveParticipantCall(chat, u) ==
    /\ Len(calls) < MaxCalls
    /\ calls' = Append(calls,
          [NewCall("remp", u, None, chat, 0, None, {}) EXCEPT !.pc = "read"])
    /\ UNCHANGED <<serviceFrame, participants, users, chatRooms, role>>

\* getChatById; 404 without a chat, 400 for a direct chat
RemoveParticipantRead(k, ok) ==
    /\ Running(k, "remp", "read")
    /\ calls' = IF ~ok THEN Throw(k)
                ELSE IF ~getChatById(Call(k).chat) THEN Return(k, "404")
                ELSE IF ChatRow(Call(k).chat).type # "group" THEN Return(k, "400")
                ELSE [calls EXCEPT ![k].pc = "delete"]
    /\ UNCHANGED <<serviceFrame, participants, users, chatRooms, role>>

\* DELETE FROM chat_participants WHERE chat_room_id = $1 AND user_id = $2
RemoveParticipantDelete(k, ok) ==
    /\ Running(k, "remp", "delete")
    /\ IF ok
       THEN /\ participants' = participants \ {<<Call(k).chat, Call(k).user>>}
            /\ role' = [role EXCEPT ![<<Call(k).chat, Call(k).user>>] = "member"]
            /\ calls' = Return(k, "ok")
       ELSE /\ calls' = Throw(k)
            /\ UNCHANGED <<participants, role>>
    /\ UNCHANGED <<serviceFrame, users, chatRooms>>

\* --------------------------------------------------- deleteUserAccount
\* deleteUserAccount(userId) is called: transaction(...)
deleteUserAccount(u) ==
    /\ Len(calls) < MaxCalls
    /\ calls' = Append(calls,
          [NewCall("account", u, None, None, 0, None, {}) EXCEPT !.pc = "delete"])
    /\ UNCHANGED <<serviceFrame, participants, users, chatRooms, role>>

\* the five DELETE statements.  The last one, DELETE FROM users, waits for
\* the transactions that hold an uncommitted row referencing the user and
\* fails on chat_rooms.creator_id, the one reference declared without
\* ON DELETE CASCADE, when the user created a chat.
AccountDelete(k, ok) ==
    /\ Running(k, "account", "delete")
    /\ Call(k).user \notin PendingUsers
    /\ calls' = IF ok /\ ~\E room \in chatRooms : room.creator = Call(k).user
                THEN [calls EXCEPT ![k].pc = "commit"]
                ELSE Throw(k)
    /\ UNCHANGED <<serviceFrame, participants, users, chatRooms, role>>

\* COMMIT: the user's reactions, messages (and the reactions to them),
\* chat_participants rows and users row go
AccountCommit(k, ok) ==
    /\ Running(k, "account", "commit")
    /\ LET u == Call(k).user
           gone == {row.id : row \in {m \in messages : m.sender = u}}
       IN  IF ok
           THEN /\ messages' = {m \in messages : m.sender # u}
                /\ reactions' = [key \in {x \in DOMAIN reactions :
                                             x[2] # u /\ x[1] \notin gone}
                                   |-> reactions[key]]
                /\ participants' = {p \in participants : p[2] # u}
                /\ role' = [p \in DOMAIN role |-> IF p[2] = u THEN "member" ELSE role[p]]
                /\ users' = users \ {u}
                /\ calls' = Return(k, "ok")
           ELSE /\ calls' = Throw(k)
                /\ UNCHANGED <<messages, reactions, participants, role, users>>
    /\ UNCHANGED <<socketVars, chatRooms>>

\* ------------------------------------------------------------------------
\* Group membership (checked under SpecGroup)
\* ------------------------------------------------------------------------
\* u1, u2 and u3 have accounts; c1 is a group chat u1 created, with u1 as its
\* only participant so far
InitGroup ==
    /\ NoSockets
    /\ nextId = 1
    /\ messages = {}
    /\ participants = {<<"c1", "u1">>}
    /\ users = Accounts
    /\ chatRooms = {[id |-> "c1", type |-> "group", creator |-> "u1"]}
    /\ role = [p \in AllChats \X Accounts |->
                   IF p = <<"c1", "u1">> THEN "creator" ELSE "member"]
    /\ reactions = EmptyBag
    /\ calls = <<>>

\* the chats a call may name: c1 and the chat the first call may have created
TargetChats == {"c1", NewIds[1]}

NextGroup ==
    \/ \E u \in Accounts, ids \in SUBSET Accounts : createGroupChat(u, ids)
    \/ \E k \in 1..MaxCalls, ok \in BOOLEAN : GroupInsert(k, ok)
    \/ \E k \in 1..MaxCalls, ok \in BOOLEAN : GroupCommit(k, ok)
    \/ \E chat \in TargetChats, u \in Accounts, r \in {"member", "admin"} :
          AddParticipantCall(chat, u, r)
    \/ \E k \in 1..MaxCalls, ok \in BOOLEAN : AddParticipantRead(k, ok)
    \/ \E k \in 1..MaxCalls, ok \in BOOLEAN : AddParticipantInsert(k, ok)
    \/ \E k \in 1..MaxCalls, ok \in BOOLEAN : AddParticipantCommit(k, ok)
    \/ \E chat \in TargetChats, u \in Accounts : RemoveParticipantCall(chat, u)
    \/ \E k \in 1..MaxCalls, ok \in BOOLEAN : RemoveParticipantRead(k, ok)
    \/ \E k \in 1..MaxCalls, ok \in BOOLEAN : RemoveParticipantDelete(k, ok)
    \/ \E u \in Accounts : deleteUserAccount(u)
    \/ \E k \in 1..MaxCalls, ok \in BOOLEAN : AccountDelete(k, ok)
    \/ \E k \in 1..MaxCalls, ok \in BOOLEAN : AccountCommit(k, ok)

SpecGroup == InitGroup /\ [][NextGroup]_vars

GroupChats == {room.id : room \in {x \in chatRooms : x.type = "group"}}

\* this step is the getChatById of addChatParticipant call k being answered
ReadAnswered(k) ==
    /\ Running(k, "addp", "read")
    /\ calls'[k].pc # "read"
    /\ ~calls'[k].fault

\* C16: a group chat never has more than the limit of membership rows
\* (300, here GroupLimit), and an add that finds the group at the limit
\* fails with the limit error (400) and creates no row.
C16_GroupSizeBounded ==
    /\ [](\A chat \in GroupChats : Cardinality(Members(chat)) <= GroupLimit)
    /\ [][\A k \in 1..MaxCalls :
            (ReadAnswered(k) /\ Call(k).chat \in GroupChats
                /\ Cardinality(Members(Call(k).chat)) >= GroupLimit) =>
               /\ calls'[k].result = "400"
               /\ participants' = participants]_vars

\* C19: every group chat has a participant whose role is creator or admin.
C19_GroupKeepsAnAdmin ==
    \A chat \in GroupChats :
        \E u \in Members(chat) : role[<<chat, u>>] \in {"creator", "admin"}

\* ------------------------------------------------------------------------
\* Direct chats (checked under SpecDirect and SpecAccount)
\* ------------------------------------------------------------------------
DirectChats == {room.id : room \in {x \in chatRooms : x.type = "direct"}}

\* the SELECT of createDirectChat: direct chats that have a and b as participants
DirectChatsOf(a, b) ==
    {chat \in DirectChats : <<chat, a>> \in participants /\ <<chat, b>> \in participants}

\* createDirectChat(userId1, userId2); the same id twice is refused before
\* the transaction starts
createDirectChat(a, b) ==
    /\ Len(calls) < MaxCalls
    /\ LET k == Len(calls) + 1
           call == NewCall("direct", a, b, None, 0, None, {})
       IN  calls' = Append(calls,
               IF a = b THEN [call EXCEPT !.pc = "done", !.result = "400"]
               ELSE [call EXCEPT !.pc = "select"])
    /\ UNCHANGED <<serviceFrame, participants, users, chatRooms, role>>

\* SELECT cr.* ... WHERE cr.type = 'direct' AND (the pair, in either order)
\* LIMIT 1: when there is a row the callback returns it (any one of them, if
\* there are several), otherwise it goes on to create a chat
DirectSelect(k, ok) ==
    /\ Running(k, "direct", "select")
    /\ LET found == DirectChatsOf(Call(k).user, Call(k).other)
       IN  IF ~ok THEN calls' = Throw(k)
           ELSE IF found # {}
           THEN \E chat \in found :
                   calls' = [calls EXCEPT ![k].pc = "commit", ![k].chat = chat,
                                          ![k].arg = "existing"]
           ELSE calls' = [calls EXCEPT ![k].pc = "insert"]
    /\ UNCHANGED <<serviceFrame, participants, users, chatRooms, role>>

\* chatId = uuidv4(); INSERT INTO chat_rooms (type 'direct', creator userId1);
\* Promise.all of the two INSERT INTO chat_participants (role 'member')
DirectInsert(k, ok) ==
    /\ Running(k, "direct", "insert")
    /\ ~Locked(Call(k).user) /\ ~Locked(Call(k).other)
    /\ calls' = IF ok /\ {Call(k).user, Call(k).other} \subseteq users
                THEN [calls EXCEPT ![k].pc = "commit", ![k].chat = NewIds[k],
                                   ![k].arg = "new"]
                ELSE Throw(k)
    /\ UNCHANGED <<serviceFrame, participants, users, chatRooms, role>>

\* COMMIT, then the chat row is returned (`chat` of the call record)
DirectCommit(k, ok) ==
    /\ Running(k, "direct", "commit")
    /\ IF ok /\ Call(k).arg = "new"
       THEN /\ chatRooms' = chatRooms \cup
                   {[id |-> Call(k).chat, type |-> "direct", creator |-> Call(k).user]}
            /\ participants' = participants \cup PendingRows(k)
            /\ role' = [p \in DOMAIN role |->
                           IF p \in PendingRows(k) THEN "member" ELSE role[p]]
            /\ calls' = Return(k, "ok")
       ELSE /\ calls' = IF ok THEN Return(k, "ok") ELSE Throw(k)
            /\ UNCHANGED <<chatRooms, participants, role>>
    /\ UNCHANGED <<serviceFrame, users>>

\* u1, u2 and u3 have accounts; there is no direct chat yet
NextDirect ==
    \/ \E a, b \in Accounts : createDirectChat(a, b)
    \/ \E k \in 1..MaxCalls, ok \in BOOLEAN : DirectSelect(k, ok)
    \/ \E k \in 1..MaxCalls, ok \in BOOLEAN : DirectInsert(k, ok)
    \/ \E k \in 1..MaxCalls, ok \in BOOLEAN : DirectCommit(k, ok)

SpecDirect == InitGroup /\ [][NextDirect]_vars

\* createDirectChat calls for the pair {a, b} that returned a chat
ReturnedFor(a, b) ==
    {k \in DOMAIN calls :
        /\ Call(k).op = "direct" /\ Call(k).result = "ok"
        /\ {Call(k).user, Call(k).other} = {a, b}}

\* C17: creating a direct chat is idempotent: for two principals a and b
\* there is at most one direct chat with the members a and b, exactly one once
\* a createDirectChat(a, b) or (b, a) has returned, and every such call
\* returns that chat.
C17_DirectChatUnique ==
    \A a, b \in Accounts : a # b =>
        /\ Cardinality(DirectChatsOf(a, b)) <= 1
        /\ \A k \in ReturnedFor(a, b) : DirectChatsOf(a, b) = {Call(k).chat}

\* direct chats with account deletion and with the participant operations
\* aimed at the direct chat the first call created.  For a direct chat
\* addChatParticipant and removeChatParticipant end at their first step (400,
\* or 404 while the chat does not exist), so their later steps do not occur.
NextAccount ==
    \/ \E a, b \in Accounts : createDirectChat(a, b)
    \/ \E k \in 1..MaxCalls, ok \in BOOLEAN : DirectSelect(k, ok)
    \/ \E k \in 1..MaxCalls, ok \in BOOLEAN : DirectInsert(k, ok)
    \/ \E k \in 1..MaxCalls, ok \in BOOLEAN : DirectCommit(k, ok)
    \/ \E u \in Accounts, r \in {"member", "admin"} : AddParticipantCall(NewIds[1], u, r)
    \/ \E k \in 1..MaxCalls, ok \in BOOLEAN : AddParticipantRead(k, ok)
    \/ \E u \in Accounts : RemoveParticipantCall(NewIds[1], u)
    \/ \E k \in 1..MaxCalls, ok \in BOOLEAN : RemoveParticipantRead(k, ok)
    \/ \E u \in Accounts : deleteUserAccount(u)
    \/ \E k \in 1..MaxCalls, ok \in BOOLEAN : AccountDelete(k, ok)
    \/ \E k \in 1..MaxCalls, ok \in BOOLEAN : AccountCommit(k, ok)

SpecAccount == InitGroup /\ [][NextAccount]_vars

\* C18: a direct chat has exactly two membership rows, both with role member.
C18_DirectChatHasTwoMembers ==
    \A chat \in DirectChats :
        /\ Cardinality(Members(chat)) = 2
        /\ \A u \in Members(chat) : role[<<chat, u>>] = "member"

\* ------------------------------------------------------------------------
\* Message payloads (checked under SpecPayload)
\* ------------------------------------------------------------------------
\* what a client may send as content (None: the field is missing), as
\* contentType and as mediaUrl (None: missing or null)
PayloadContents == {"hi", "", None}
ContentTypes == {"text", "image"}
MediaUrls == {None, "m1"}

\* socket.on('message:new') for a payload that carries all four fields
MessageNewPayloadFields(s, chat, content, contentType, mediaUrl) ==
    /\ status[s] = "open"
    /\ Len(reqs) < MaxReq
    /\ reqs' = Append(reqs, [NewReq(s, chat, content) EXCEPT
                                !.contentType = contentType, !.mediaUrl = mediaUrl])
    /\ UNCHANGED <<status, activeUsers, rooms, joining, participants, messages,
                   nextId, updatedAt, inbox, bcast, lastStatus, nEph, typingShown>>
    /\ UNCHANGED extVars

NextPayload ==
    \/ \E s \in Senders, chat \in Chats, content \in PayloadContents,
          contentType \in ContentTypes, mediaUrl \in MediaUrls :
          MessageNewPayloadFields(s, chat, content, contentType, mediaUrl)
    \/ \E r \in 1..MaxReq, ok \in BOOLEAN : HandlerCheck(r, ok)
    \/ \E r \in 1..MaxReq, ok \in BOOLEAN : SaveCheck(r, ok)
    \/ \E r \in 1..MaxReq, ok \in BOOLEAN : SaveInsert(r, ok)
    \/ \E r \in 1..MaxReq, ok \in BOOLEAN : SaveUpdate(r, ok)

SpecPayload == InitMsg /\ [][NextPayload]_vars

\* a text message without content, or an image message without a media reference
InvalidPayload(q) ==
    \/ q.contentType = "text" /\ q.content \in {"", None}
    \/ q.contentType = "image" /\ q.mediaUrl = None

\* C20: a text message whose content is empty and an image message without a
\* media reference are rejected with an error, nothing being stored or
\* broadcast for them; hence every stored message of content_type image has a
\* media_url.
C20_InvalidMessagesRejected ==
    /\ \A r \in DOMAIN reqs : InvalidPayload(reqs[r]) =>
          /\ reqs[r].rowId = 0
          /\ \A c \in Conns : MsgEvents(c, r) = {}
          /\ reqs[r].pc = "done" => reqs[r].result = "failed"
    /\ \A row \in messages : row.contentType = "image" => row.mediaUrl # None

\* ------------------------------------------------------------------------
\* Connections that close with work in flight (SpecMsg, SpecTyping)
\* ------------------------------------------------------------------------
\* this step is the last query of invocation r being answered
PipelineCompletes(r) ==
    /\ r \in DOMAIN reqs
    /\ reqs[r].pc = "update"
    /\ reqs'[r].bumped

\* C21: when the sender's socket closed after its message:new was accepted and
\* before the INSERT returned, the row is stored all the same, and when the
\* pipeline completes the stored row is sent exactly once to every socket that
\* is then open and in the chat's room, and to no other socket.
C21_CloseCancelsNoPersistence ==
    /\ [](\A r \in DOMAIN reqs :
            (reqs[r].rowId > 0 /\ ~reqs[r].senderOpen) =>
                \E row \in messages :
                    /\ row.id = reqs[r].rowId
                    /\ row.sender = SocketUser(reqs[r].conn)
                    /\ row.content = reqs[r].content)
    /\ [][\A r \in 1..MaxReq :
            (PipelineCompletes(r) /\ ~reqs[r].senderOpen) =>
               LET row == RowOf(r)
                   ev == Ev("message:new", row.chat, row.sender, row.id,
                            row.content, r, TRUE)
               IN  \A c \in Conns :
                      /\ CopiesIn(ev, inbox[c]) = 0
                      /\ IF <<c, reqs[r].chat>> \in rooms /\ status[c] = "open"
                         THEN inbox'[c] = inbox[c] (+) SetToBag({ev})
                         ELSE inbox'[c] = inbox[c]]_vars

\* s1 closed before the INSERT of its message returned; the message was
\* stored and the two listeners, still in the room, hold it
C21_Witness ==
    \E r \in DOMAIN reqs :
        /\ reqs[r].conn = "s1" /\ ~reqs[r].senderOpen
        /\ reqs[r].result = "broadcast"
        /\ status["s1"] = "closed"
        /\ MsgEvents("s2", r) # {} /\ MsgEvents("s3", r) # {}
        /\ MsgEvents("s1", r) = {}

\* C22: a socket that closed while its chat:join was awaiting the membership
\* lookup is not put in the room when the lookup returns: no closed socket is
\* in any chat's room.
C22_NoClosedSocketInRoom ==
    \A s \in Conns, chat \in Chats : <<s, chat>> \in rooms => status[s] = "open"

\* ------------------------------------------------------------------------
\* Malformed events (checked under SpecMalformed)
\* ------------------------------------------------------------------------
\* An exception that escapes a listener is thrown out of Socket.IO's dispatch
\* (the listener is called from process.nextTick with no try around it); the
\* server installs no 'uncaughtException' handler, so the Node.js process
\* ends.  Every transport is cut ("lost": no disconnect handler runs, nothing
\* is emitted) and all in-memory state - rooms, activeUsers, the suspended
\* handlers - is gone.
ProcessExit ==
    /\ status' = [c \in Conns |->
                     IF status[c] \in {"auth", "new", "open"} THEN "lost" ELSE status[c]]
    /\ rooms' = {}
    /\ joining' = {}
    /\ activeUsers' = [u \in Users |-> None]
    /\ typingShown' = {}
    /\ reqs' = [r \in DOMAIN reqs |->
                   IF reqs[r].pc = "done" THEN reqs[r]
                   ELSE [reqs[r] EXCEPT !.pc = "done", !.result = "lost"]]

ServerUp == \A c \in Conns : status[c] # "lost"

\* socket.on('typing:start', ({ chatId }) => ...) receiving no payload object:
\* destructuring undefined throws a TypeError in the listener itself
TypingStartNoPayload(s) ==
    /\ status[s] = "open"
    /\ nEph < MaxEph
    /\ nEph' = nEph + 1
    /\ ProcessExit
    /\ UNCHANGED <<participants, messages, nextId, updatedAt, inbox, bcast, lastStatus>>
    /\ UNCHANGED extVars

\* socket.on('typing:stop', ({ chatId }) => ...) receiving no payload object
TypingStopNoPayload(s) ==
    /\ status[s] = "open"
    /\ nEph < MaxEph
    /\ nEph' = nEph + 1
    /\ ProcessExit
    /\ UNCHANGED <<participants, messages, nextId, updatedAt, inbox, bcast, lastStatus>>
    /\ UNCHANGED extVars

\* socket.on('message:new') receiving no payload: the destructuring is inside
\* the handler's try, so the catch block answers 'Failed to send message'
MessageNewNoPayload(s) ==
    /\ status[s] = "open"
    /\ nEph < MaxEph
    /\ nEph' = nEph + 1
    /\ inbox' = SocketEmit(inbox, s, Ev("error", None, None, 0, FailedMsg, 0, TRUE))
    /\ UNCHANGED <<status, activeUsers, rooms, joining, participants, messages,
                   nextId, updatedAt, reqs, bcast, lastStatus, typingShown>>
    /\ UNCHANGED extVars

\* the three sockets are connected; any of them may join and may send
\* well-formed and malformed events; s3's user may be no participant
NextMalformed ==
    \/ \E s \in Conns, chat \in Chats : ChatJoin(s, chat)
    \/ LookupReturns
    \/ \E s \in Conns, chat \in Chats : TypingStart(s, chat)
    \/ \E s \in Conns : TypingStartNoPayload(s)
    \/ \E s \in Conns : TypingStopNoPayload(s)
    \/ \E s \in Conns : MessageNewNoPayload(s)
    \/ \E chat \in Chats, content \in Contents : MessageNew("s3", chat, content)
    \/ \E r \in 1..MaxReq, ok \in BOOLEAN : HandlerCheck(r, ok)
    \/ \E r \in 1..MaxReq, ok \in BOOLEAN : SaveCheck(r, ok)
    \/ \E r \in 1..MaxReq, ok \in BOOLEAN : SaveInsert(r, ok)
    \/ \E r \in 1..MaxReq, ok \in BOOLEAN : SaveUpdate(r, ok)

SpecMalformed == InitTyping /\ [][NextMalformed]_vars

\* C23: no event a socket sends, malformed and unauthorized ones included,
\* ends the server process, closes a connection or changes the rooms of
\* another connection (rooms change only by a socket's own granted chat:join).
C23_MalformedEventsAreContained ==
    /\ []ServerUp
    /\ [][ /\ status' = status
           /\ rooms' # rooms =>
                 \E s \in Conns, chat \in Chats :
                     /\ <<s, chat>> \in joining
                     /\ rooms' = rooms \cup {<<s, chat>>} ]_vars

\* ------------------------------------------------------------------------
\* Privileged chat routes (checked under SpecRoutes)
\* ------------------------------------------------------------------------
\* the names middleware/auth.js has in scope: its three require()s
AuthImports == {"jwt", "getUserById", "logger"}

\* the routes registered behind isGroupAdmin
GuardedRoutes == {"POST participants", "DELETE participant", "DELETE chat"}

\* a request with a valid token and a valid body reaches isGroupAdmin:
\* POST /:chatId/participants {userId: target}
PostParticipants(u, chat, target) ==
    /\ Len(calls) < MaxCalls
    /\ calls' = Append(calls,
          [NewCall("POST participants", u, target, chat, 0, "member", {})
              EXCEPT !.pc = "isGroupAdmin"])
    /\ UNCHANGED <<serviceFrame, participants, users, chatRooms, role>>

\* DELETE /:chatId/participants/:userId
DeleteParticipant(u, chat, target) ==
    /\ Len(calls) < MaxCalls
    /\ calls' = Append(calls,
          [NewCall("DELETE participant", u, target, chat, 0, None, {})
              EXCEPT !.pc = "isGroupAdmin"])
    /\ UNCHANGED <<serviceFrame, participants, users, chatRooms, role>>

\* DELETE /:chatId
DeleteChat(u, chat) ==
    /\ Len(calls) < MaxCalls
    /\ calls' = Append(calls,
          [NewCall("DELETE chat", u, None, chat, 0, None, {})
              EXCEPT !.pc = "isGroupAdmin"])
    /\ UNCHANGED <<serviceFrame, participants, users, chatRooms, role>>

HoldsAdminRole(chat, u) ==
    <<chat, u>> \in participants /\ role[<<chat, u>>] \in {"creator", "admin"}

\* isGroupAdmin: `await getChatParticipant(chatId, user.id)` names a function
\* the module never imports, so evaluating it throws a ReferenceError inside
\* the try and the catch answers 500; with the name in scope the role decides
\* between 403 and next()
isGroupAdmin(k) ==
    /\ k \in DOMAIN calls
    /\ Call(k).op \in GuardedRoutes
    /\ Call(k).pc = "isGroupAdmin"
    /\ calls' = IF "getChatParticipant" \notin AuthImports THEN Return(k, "500")
                ELSE IF ~HoldsAdminRole(Call(k).chat, Call(k).user) THEN Return(k, "403")
                ELSE [calls EXCEPT ![k].pc = "handler"]
    /\ UNCHANGED <<serviceFrame, participants, users, chatRooms, role>>

\* c1 is a group chat of u1 (creator) and u2 (admin or plain member); u3 has
\* an account and is no participant
InitRoutes ==
    /\ NoSockets
    /\ nextId = 1
    /\ messages = {}
    /\ participants = {<<"c1", "u1">>, <<"c1", "u2">>}
    /\ users = Accounts
    /\ chatRooms = {[id |-> "c1", type |-> "group", creator |-> "u1"]}
    /\ \E r2 \in {"admin", "member"} :
          role = [p \in AllChats \X Accounts |->
                     IF p = <<"c1", "u1">> THEN "creator"
                     ELSE IF p = <<"c1", "u2">> THEN r2 ELSE "member"]
    /\ reactions = EmptyBag
    /\ calls = <<>>

NextRoutes ==
    \/ \E u \in Accounts, chat \in Chats, target \in Accounts : PostParticipants(u, chat, target)
    \/ \E u \in Accounts, chat \in Chats, target \in Accounts : DeleteParticipant(u, chat, target)
    \/ \E u \in Accounts, chat \in Chats : DeleteChat(u, chat)
    \/ \E k \in 1..MaxCalls : isGroupAdmin(k)

SpecRoutes == InitRoutes /\ [][NextRoutes]_vars

\* C24: when isGroupAdmin answers a request for a guarded route, a requester
\* who holds role creator or admin in the chat at that moment is let through
\* to the handler, and any other requester is answered 403 (insufficient
\* permissions) with participants and chat rooms unchanged.
C24_RoleRecheckedAtCallTime ==
    [][\A k \in 1..MaxCalls :
          (k \in DOMAIN calls /\ Call(k).pc = "isGroupAdmin" /\ calls'[k].pc # "isGroupAdmin") =>
              IF HoldsAdminRole(Call(k).chat, Call(k).user)
              THEN calls'[k].pc = "handler"
              ELSE /\ calls'[k].result = "403"
                   /\ UNCHANGED <<participants, chatRooms, role>>]_vars

\* C25: every message row is inserted for a sender who is a participant of
\* the chat at the moment of the insert; no removeChatParticipant falls
\* between saveMessage's membership check and its INSERT.
C25_SenderIsMemberAtInsert ==
    [][\A row \in messages' \ messages : isUserInChat(row.chat, row.sender)]_vars

\* C26: every socket in a chat's room belongs to a user who is a participant
\* of the chat, so after removeChatParticipant has committed the removed
\* user's sockets receive no further message:new or typing events of the chat.
C26_RoomMembersAreParticipants ==
    \A s \in Conns, chat \in Chats :
        <<s, chat>> \in rooms => isUserInChat(chat, SocketUser(s))

\* ------------------------------------------------------------------------
\* The browser of u1 (checked under SpecClient and SpecTypingClient)
\* ------------------------------------------------------------------------
\* useSocket() keeps its socket in the calling component's own state and
\* opens it in that component's own effect: every component that calls the
\* hook has a connection of its own.  The Chat page's is s1, ChatArea's is s2.
useSocket(component) == IF component = "Chat" THEN "s1" ELSE "s2"

\* ChatList's onSelectChat: setSelectedChatId(chatId); navigate(`/chat/${chatId}`).
\* The Chat page's effect on [selectedChatId, socket] runs its cleanup
\* (chat:leave for the chat selected before) and emits chat:join on the
\* page's socket; the server handles both in order.  The route parameter of
\* ChatArea, which stays mounted, becomes chatId.
onSelectChat(chat) ==
    LET s == useSocket("Chat") IN
    /\ client.selectedChatId # chat
    /\ status[s] = "open"
    /\ <<s, chat>> \notin joining
    /\ client' = [client EXCEPT !.selectedChatId = chat, !.chatId = chat]
    /\ rooms' = IF client.selectedChatId = None THEN rooms
                ELSE rooms \ {<<s, client.selectedChatId>>}
    /\ joining' = joining \cup {<<s, chat>>}
    /\ UNCHANGED <<status, activeUsers, participants, messages, nextId, updatedAt,
                   reqs, inbox, bcast, lastStatus, nEph, typingShown>>
    /\ UNCHANGED <<handshake, users, chatRooms, role, reactions, calls>>

\* ChatArea's sendMessage: socket.emit('message:new', {chatId, content, ...})
\* on ChatArea's socket
sendMessage(content) ==
    /\ client.chatId # None
    /\ MessageNew(useSocket("ChatArea"), client.chatId, content)

\* what ChatArea's handleNewMessage has appended to the message list: the
\* message:new events that arrived on the socket its listeners are on
MessageList == {ev \in BagToSet(inbox[useSocket("ChatArea")]) : ev.type = "message:new"}

\* u1's two sockets and u2's socket are connected, nobody is in a room yet
NextClient ==
    \/ \E chat \in Chats : onSelectChat(chat)
    \/ LookupReturns
    \/ \E content \in Contents : sendMessage(content)
    \/ \E chat \in Chats, content \in Contents : MessageNew("s3", chat, content)
    \/ \E r \in 1..MaxReq, ok \in BOOLEAN : HandlerCheck(r, ok)
    \/ \E r \in 1..MaxReq, ok \in BOOLEAN : SaveCheck(r, ok)
    \/ \E r \in 1..MaxReq, ok \in BOOLEAN : SaveInsert(r, ok)
    \/ \E r \in 1..MaxReq, ok \in BOOLEAN : SaveUpdate(r, ok)

SpecClient == InitTyping /\ [][NextClient]_vars

\* C27: once the join for the displayed chat has been granted, the socket
\* ChatArea listens and sends on is in the chat's room, and every message
\* broadcast to that chat from then on arrives on it (and so in the message
\* list).
C27_ChatAreaSocketIsJoined ==
    /\ [](\A chat \in Chats :
             (client.chatId = chat /\ <<useSocket("Chat"), chat>> \in rooms) =>
                 <<useSocket("ChatArea"), chat>> \in rooms)
    /\ [][\A r \in 1..MaxReq :
             (/\ PipelineCompletes(r)
              /\ client.chatId = reqs[r].chat
              /\ <<useSocket("Chat"), reqs[r].chat>> \in rooms) =>
                 \E ev \in MessageList' : ev.req = r]_vars

\* ------------------------------------------------------------------------
\* Read routes of /api/chats (checked under SpecRead)
\* ------------------------------------------------------------------------
\* GET /chats/:chatId by an authenticated user: asyncHandler calls getChatById
GetChat(u, chat) ==
    /\ Len(calls) < MaxCalls
    /\ calls' = Append(calls,
          [NewCall("GET chat", u, None, chat, 0, None, {}) EXCEPT !.pc = "query"])
    /\ UNCHANGED <<serviceFrame, participants, users, chatRooms, role>>

\* getChatById's SELECT returns: 404 without a row, else res.json(chat), whose
\* `participants` (kept in `ids`) are the chat's participants
GetChatReturns(k, ok) ==
    /\ Running(k, "GET chat", "query")
    /\ calls' = IF ~ok THEN Throw(k)
                ELSE IF ~getChatById(Call(k).chat) THEN Return(k, "404")
                ELSE [Return(k, "200") EXCEPT ![k].ids = Members(Call(k).chat)]
    /\ UNCHANGED <<serviceFrame, participants, users, chatRooms, role>>

\* GET /chats/:chatId/messages: asyncHandler calls getChatMessages
GetChatMessages(u, chat) ==
    /\ Len(calls) < MaxCalls
    /\ calls' = Append(calls,
          [NewCall("GET messages", u, None, chat, 0, None, {}) EXCEPT !.pc = "query"])
    /\ UNCHANGED <<serviceFrame, participants, users, chatRooms, role>>

\* getChatMessages's SELECT ... WHERE m.chat_room_id = $1 returns:
\* res.json(rows); `ids` keeps the ids of the rows in the response
GetChatMessagesReturns(k, ok) ==
    /\ Running(k, "GET messages", "query")
    /\ calls' = IF ~ok THEN Throw(k)
                ELSE [Return(k, "200") EXCEPT
                         ![k].ids = {row.id : row \in {m \in messages : m.chat = Call(k).chat}}]
    /\ UNCHANGED <<serviceFrame, participants, users, chatRooms, role>>

\* c1 holds one message; u1 is a participant, u2 may be one and may stop
\* being one
NextRead ==
    \/ \E u \in Users, chat \in Chats : GetChat(u, chat)
    \/ \E k \in 1..MaxCalls, ok \in BOOLEAN : GetChatReturns(k, ok)
    \/ \E u \in Users, chat \in Chats : GetChatMessages(u, chat)
    \/ \E k \in 1..MaxCalls, ok \in BOOLEAN : GetChatMessagesReturns(k, ok)
    \/ \E u \in Users : removeChatParticipant("c1", u)

SpecRead == InitReact /\ [][NextRead]_vars

\* C28: a response to GET /chats/:chatId or GET /chats/:chatId/messages that
\* is produced while the requester is no participant of the chat carries no
\* participant and no message of that chat.
C28_HistoryOnlyForMembers ==
    [][\A k \in 1..MaxCalls :
          (/\ k \in DOMAIN calls
           /\ Call(k).op \in {"GET chat", "GET messages"}
           /\ Call(k).pc = "query"
           /\ calls'[k].pc = "done"
           /\ ~isUserInChat(Call(k).chat, Call(k).user)) =>
              calls'[k].ids = {}]_vars

\* ------------------------------------------------------------------------
\* transaction(callback) (checked under SpecTx)
\* ------------------------------------------------------------------------
\* One run of transaction() is a call record: `ids` is the set of statements
\* it has issued on its client, `count` the number of client.release() calls,
\* `arg` the first error raised inside the try, `msg` is 1 once the callback
\* has resolved, `result` what the caller gets ("ok" or the error thrown).
\* The callback is createGroupChat's first statement, the INSERT of chat room
\* `chat` with creator `user`.
transactionCall(u) ==
    /\ Len(calls) < MaxCalls
    /\ calls' = Append(calls,
          [NewCall("tx", u, None, NewIds[Len(calls) + 1], 0, None, {})
              EXCEPT !.pc = "connect"])
    /\ UNCHANGED <<serviceFrame, participants, users, chatRooms, role>>

\* const client = await getClient(): outside the try; a failure is thrown to
\* the caller and there is no client to release
TxConnect(k, ok) ==
    /\ Running(k, "tx", "connect")
    /\ calls' = IF ok THEN [calls EXCEPT ![k].pc = "begin"]
                ELSE [calls EXCEPT ![k].pc = "done", ![k].fault = TRUE,
                                   ![k].arg = "connect error",
                                   ![k].result = "connect error"]
    /\ UNCHANGED <<serviceFrame, participants, users, chatRooms, role>>

\* await client.query('BEGIN'): a failure goes to the catch block
TxBegin(k, ok) ==
    /\ Running(k, "tx", "begin")
    /\ calls' = [calls EXCEPT
                    ![k].ids = @ \cup {"BEGIN"},
                    ![k].pc = IF ok THEN "callback" ELSE "rollback",
                    ![k].arg = IF ok THEN @ ELSE "BEGIN error"]
    /\ UNCHANGED <<serviceFrame, participants, users, chatRooms, role>>

\* const result = await callback(client): resolves, or rejects
TxCallback(k, ok) ==
    /\ Running(k, "tx", "callback")
    /\ calls' = [calls EXCEPT
                    ![k].msg = IF ok THEN 1 ELSE @,
                    ![k].pc = IF ok THEN "commit" ELSE "rollback",
                    ![k].arg = IF ok THEN @ ELSE "callback error"]
    /\ UNCHANGED <<serviceFrame, participants, users, chatRooms, role>>

\* await client.query('COMMIT'); return result; finally client.release()
TxCommit(k, ok) ==
    /\ Running(k, "tx", "commit")
    /\ IF ok
       THEN /\ chatRooms' = chatRooms \cup
                   {[id |-> Call(k).chat, type |-> "group", creator |-> Call(k).user]}
            /\ calls' = [calls EXCEPT ![k].ids = @ \cup {"COMMIT"}, ![k].pc = "done",
                                      ![k].result = "ok", ![k].count = @ + 1]
       ELSE /\ chatRooms' = chatRooms
            /\ calls' = [calls EXCEPT ![k].ids = @ \cup {"COMMIT"}, ![k].pc = "rollback",
                                      ![k].arg = "COMMIT error"]
    /\ UNCHANGED <<serviceFrame, participants, users, role>>

\* catch (error) { await client.query('ROLLBACK'); throw error; } finally
\* { client.release(); }: when ROLLBACK itself rejects, its error leaves the
\* catch block in place of `error`
TxRollback(k, ok) ==
    /\ Running(k, "tx", "rollback")
    /\ calls' = [calls EXCEPT
                    ![k].ids = @ \cup {"ROLLBACK"},
                    ![k].pc = "done",
                    ![k].fault = TRUE,
                    ![k].result = IF ok THEN Call(k).arg ELSE "ROLLBACK error",
                    ![k].count = @ + 1]
    /\ UNCHANGED <<serviceFrame, participants, users, chatRooms, role>>

NextTx ==
    \/ \E u \in Users : transactionCall(u)
    \/ \E k \in 1..MaxCalls, ok \in BOOLEAN : TxConnect(k, ok)
    \/ \E k \in 1..MaxCalls, ok \in BOOLEAN : TxBegin(k, ok)
    \/ \E k \in 1..MaxCalls, ok \in BOOLEAN : TxCallback(k, ok)
    \/ \E k \in 1..MaxCalls, ok \in BOOLEAN : TxCommit(k, ok)
    \/ \E k \in 1..MaxCalls, ok \in BOOLEAN : TxRollback(k, ok)

SpecTx == InitGroup /\ [][NextTx]_vars

\* C29: a finished transaction() has issued COMMIT iff its callback resolved
\* and ROLLBACK iff the callback or COMMIT threw; a failed one throws the
\* original error and has left no row; the client, once obtained, has been
\* released exactly once.
C29_TransactionDiscipline ==
    \A k \in DOMAIN calls :
        (Call(k).op = "tx" /\ Call(k).pc = "done") =>
            /\ "COMMIT" \in Call(k).ids <=> Call(k).msg = 1
            /\ "ROLLBACK" \in Call(k).ids <=>
                   Call(k).arg \in {"callback error", "COMMIT error"}
            /\ Call(k).result # "ok" =>
                   /\ Call(k).result = Call(k).arg
                   /\ ~HasChat(Call(k).chat)
            /\ Call(k).count = IF Call(k).arg = "connect error" THEN 0 ELSE 1

\* ------------------------------------------------------------------------
\* Typing indicator of ChatArea (checked under LiveTypingClient)
\* ------------------------------------------------------------------------
\* keystrokes of one run
MaxKeys == 3

TypingSent(type, chat) == <<type, chat>>

\* handleTyping, on a keystroke in the message input: typing:start only when
\* isTyping is false; the pending timeout is cleared and a new one is set
\* whose callback closes over the chatId of this render
handleTyping ==
    /\ client.chatId # None
    /\ client.keys < MaxKeys
    /\ client' = [client EXCEPT
                     !.keys = @ + 1,
                     !.isTyping = TRUE,
                     !.sent = IF client.isTyping THEN @
                              ELSE Append(@, TypingSent("typing:start", client.chatId)),
                     !.timer = client.chatId]
    /\ UNCHANGED <<status, activeUsers, rooms, joining, participants, messages, nextId,
                   updatedAt, reqs, inbox, bcast, lastStatus, nEph, typingShown>>
    /\ UNCHANGED <<handshake, users, chatRooms, role, reactions, calls>>

\* the timeout set by handleTyping fires, 1000 ms after the last keystroke:
\* setIsTyping(false); socket.emit('typing:stop', {chatId}) with the chatId
\* the callback closed over
typingTimeout ==
    /\ client.timer # None
    /\ client' = [client EXCEPT
                     !.isTyping = FALSE,
                     !.sent = Append(@, TypingSent("typing:stop", client.timer)),
                     !.timer = None]
    /\ UNCHANGED <<status, activeUsers, rooms, joining, participants, messages, nextId,
                   updatedAt, reqs, inbox, bcast, lastStatus, nEph, typingShown>>
    /\ UNCHANGED <<handshake, users, chatRooms, role, reactions, calls>>

\* u1 and u2 are participants of two group chats; their sockets are connected
InitTypingClient ==
    /\ status = AllOpen
    /\ activeUsers = [u \in Users |-> IF u = "u1" THEN "s2" ELSE "s3"]
    /\ rooms = {}
    /\ joining = {}
    /\ participants = TargetChats \X Users
    /\ messages = {}
    /\ nextId = 1
    /\ updatedAt = [ch \in Chats |-> 0]
    /\ reqs = <<>>
    /\ inbox = InboxAllOpen
    /\ bcast = <<>>
    /\ lastStatus = [u \in Users |-> "online"]
    /\ nEph = 0
    /\ typingShown = {}
    /\ handshake = [c \in Conns |-> Passed]
    /\ users = Users
    /\ chatRooms = {[id |-> chat, type |-> "group", creator |-> "u1"] : chat \in TargetChats}
    /\ role = [p \in AllChats \X Accounts |->
                   IF p[2] = "u1" /\ p[1] \in TargetChats THEN "creator" ELSE "member"]
    /\ reactions = EmptyBag
    /\ calls = <<>>
    /\ client = NoClient

NextTypingClient ==
    \/ \E chat \in TargetChats : onSelectChat(chat)
    \/ \E s \in Conns, chat \in TargetChats, ok \in BOOLEAN : ChatJoinResult(s, chat, ok)
    \/ handleTyping
    \/ typingTimeout

SpecTypingClient == InitTypingClient /\ [][NextTypingClient]_vars

\* a timeout that is set and not cleared fires: the browser's event loop runs
\* due timers
LiveTypingClient == SpecTypingClient /\ WF_vars(typingTimeout)

StopAfter(i) ==
    \E j \in (i + 1)..Len(client.sent) :
        client.sent[j] = TypingSent("typing:stop", client.sent[i][2])

\* C30: every typing:start the client emits for a chat is eventually followed
\* by a typing:stop for the same chat, and no second typing:start for the chat
\* is emitted before that typing:stop, chat switches included.
C30_TypingStartIsStopped ==
    /\ \A i \in 1..(2 * MaxKeys) :
          [](  (i <= Len(client.sent) /\ client.sent[i][1] = "typing:start")
               => <>StopAfter(i))
    /\ [](\A i, j \in 1..(2 * MaxKeys) :
             (/\ i < j
              /\ j <= Len(client.sent)
              /\ client.sent[i][1] = "typing:start"
              /\ client.sent[j] = client.sent[i]) =>
                 \E m \in (i + 1)..(j - 1) :
                     client.sent[m] = TypingSent("typing:stop", client.sent[i][2]))
====
